---------------------------- MODULE Spec2Model ----------------------------
(***************************************************************************)
(* Platable Insights: the header-mapping, field-normalisation, metric and  *)
(* aggregation pipeline, as implemented twice in the repository:           *)
(*   - the single-file app        src/streamlit_app.py                     *)
(*   - the multi-page app         src/utils/data.py, src/utils/charts.py   *)
(*                                and the pages src/1_Company.py ..        *)
(*                                src/5_Settings.py                        *)
(*                                                                         *)
(* Numbers are exact decimals [m, e] standing for m * 10^-e (the code uses *)
(* binary floats; every value of the model is a short decimal, for which   *)
(* the two agree to the 2 decimals the code rounds to).  Text that the     *)
(* code parses character by character (percentages) is a sequence of       *)
(* one-character strings.  Categorical text (order state, service mode)    *)
(* is a word with its casing and its surrounding blanks.                   *)
(***************************************************************************)
EXTENDS Integers, Sequences, FiniteSets, TLC

VARIABLES
    fn,             \* pure-function harness: the function under test
    arg,            \* its argument
    ret,            \* its result, NotCalled before the call
    app,            \* which program runs: "single" (streamlit_app.py) or "multi" (pages + utils)
    raw_df,         \* st.session_state["raw_df"]   (single-file app only)
    data_df,        \* st.session_state["data_df"]  the normalized table
    impact_params,  \* st.session_state["impact_params"]; under SpecPure, the params given to transform
    view            \* what the last rendered page computed

vars == <<fn, arg, ret, app, raw_df, data_df, impact_params, view>>

-----------------------------------------------------------------------------
(* Values *)

\* NaN / None / a key that is absent from session state
Null == [t |-> "null"]

NotCalled == [t |-> "notcalled"]

Int_(n) == [t |-> "int", v |-> n]

IsNull(x) == x.t = "null"

\* ---- exact decimals

RECURSIVE Pow10(_)
Pow10(n) == IF n = 0 THEN 1 ELSE 10 * Pow10(n - 1)

RECURSIVE NormME(_, _)
NormME(m, e) ==
    IF m = 0 THEN [t |-> "dec", m |-> 0, e |-> 0]
    ELSE IF e > 0 /\ m % 10 = 0 THEN NormME(m \div 10, e - 1)
    ELSE [t |-> "dec", m |-> m, e |-> e]

Dec(m, e) == NormME(m, e)

Abs(n) == IF n < 0 THEN -n ELSE n

Max2(a, b) == IF a >= b THEN a ELSE b

\* a / b rounded to the nearest integer, ties to the even one (Python 3 round,
\* numpy rint); b > 0
RoundHalfEven(a, b) ==
    LET q == a \div b
        r == a % b
    IN  IF 2 * r < b THEN q
        ELSE IF 2 * r > b THEN q + 1
        ELSE IF q % 2 = 0 THEN q ELSE q + 1

\* the mantissa of d at e decimals, e >= d.e
AtScale(d, e) == d.m * Pow10(e - d.e)

DecAdd(a, b) ==
    IF IsNull(a) \/ IsNull(b) THEN Null
    ELSE LET e == Max2(a.e, b.e) IN Dec(AtScale(a, e) + AtScale(b, e), e)

DecSub(a, b) ==
    IF IsNull(a) \/ IsNull(b) THEN Null
    ELSE LET e == Max2(a.e, b.e) IN Dec(AtScale(a, e) - AtScale(b, e), e)

DecMul(a, b) ==
    IF IsNull(a) \/ IsNull(b) THEN Null ELSE Dec(a.m * b.m, a.e + b.e)

DecGt(a, b) ==
    LET e == Max2(a.e, b.e) IN AtScale(a, e) > AtScale(b, e)

\* Series.round(n): NaN stays NaN
DecRound(a, n) ==
    IF IsNull(a) THEN Null
    ELSE IF a.e <= n THEN a
    ELSE Dec(RoundHalfEven(a.m, Pow10(a.e - n)), n)

\* Series.fillna(0)
FillNa0(a) == IF IsNull(a) THEN Dec(0, 0) ELSE a

\* Series.fillna(v)
FillNa(a, v) == IF IsNull(a) THEN v ELSE a

RECURSIVE Gcd(_, _)
Gcd(a, b) == IF b = 0 THEN a ELSE Gcd(b, a % b)

\* a / b of two floats, b > 0: the exact quotient n / d in lowest terms
DecDiv(a, b) ==
    IF IsNull(a) \/ IsNull(b) THEN Null
    ELSE LET e == Max2(a.e, b.e)
             n == AtScale(a, e)
             d == AtScale(b, e)
             g == Gcd(Abs(n), d)
         IN  [t |-> "frac", n |-> n \div g, d |-> d \div g]

\* ---- character strings

Digits == {"0", "1", "2"}

RECURSIVE Remove(_, _)
\* str.replace(c, "")
Remove(s, c) ==
    IF s = <<>> THEN <<>>
    ELSE IF Head(s) = c THEN Remove(Tail(s), c)
    ELSE <<Head(s)>> \o Remove(Tail(s), c)

RECURSIVE LStrip(_)
LStrip(s) ==
    IF s # <<>> /\ Head(s) = " " THEN LStrip(Tail(s)) ELSE s

RECURSIVE RStrip(_)
RStrip(s) ==
    IF s # <<>> /\ s[Len(s)] = " " THEN RStrip(SubSeq(s, 1, Len(s) - 1)) ELSE s

\* str.strip()
Strip(s) == LStrip(RStrip(s))

RECURSIVE DigitsValue(_)
\* the integer a digit string denotes
DigitsValue(s) ==
    LET DigitVal(c) == IF c = "0" THEN 0 ELSE IF c = "1" THEN 1 ELSE 2
    IN
    IF s = <<>> THEN 0
    ELSE 10 * DigitsValue(SubSeq(s, 1, Len(s) - 1)) + DigitVal(s[Len(s)])

\* float(s) for the strings of the model's alphabet: blanks around, an optional
\* minus sign, digits with at most one decimal point and at least one digit.
\* Null stands for the ValueError.
PyFloat(s0) ==
    LET Count(s, c) == Cardinality({i \in 1..Len(s) : s[i] = c})
    IN
    LET s    == Strip(s0)
        neg  == s # <<>> /\ Head(s) = "-"
        body == IF neg THEN Tail(s) ELSE s
        ok   == /\ body # <<>>
                /\ \A i \in 1..Len(body) : body[i] \in Digits \cup {"."}
                /\ Count(body, ".") <= 1
                /\ \E i \in 1..Len(body) : body[i] \in Digits
        dot  == IF Count(body, ".") = 1
                THEN CHOOSE i \in 1..Len(body) : body[i] = "."
                ELSE Len(body) + 1
        e    == IF dot > Len(body) THEN 0 ELSE Len(body) - dot
        m    == DigitsValue(Remove(body, "."))
    IN  IF ok THEN Dec(IF neg THEN -m ELSE m, e) ELSE Null

Str(s) == [t |-> "str", s |-> s]

\* float("inf"), as read from a cell "inf" of a numeric column
Inf == [t |-> "inf"]

\* what a raised exception leaves in place of a result
Raised(what) == [t |-> "error", what |-> what]

IsRaised(x) == x.t = "error"

-----------------------------------------------------------------------------
(* pct_to_decimal *)

pct_to_decimal_ge(x) ==
    IF IsNull(x) THEN Null
    ELSE LET v == IF x.t = "str"
                  THEN PyFloat(Remove(Remove(Strip(x.s), "%"), ","))
                  ELSE x
         IN  IF IsNull(v) THEN Null
             ELSE IF ~DecGt(Dec(1, 0), v) THEN Dec(v.m, v.e + 2) ELSE v

pct_to_decimal(x) ==
    IF IsNull(x) THEN Null
    ELSE LET v == IF x.t = "str"
                  THEN PyFloat(Remove(Remove(Strip(x.s), "%"), ","))
                  ELSE x
         IN  IF IsNull(v) THEN Null
             ELSE IF DecGt(v, Dec(1, 0)) THEN Dec(v.m, v.e + 2) ELSE v

-----------------------------------------------------------------------------
(* to_float, pd.to_numeric *)

RECURSIVE KeepAmountChars(_)
\* re.sub(r"[^\d\.\-]", "", s)
KeepAmountChars(s) ==
    IF s = <<>> THEN <<>>
    ELSE IF Head(s) \in Digits \cup {".", "-"}
         THEN <<Head(s)>> \o KeepAmountChars(Tail(s))
    ELSE KeepAmountChars(Tail(s))

\* streamlit_app.to_float
to_float(x) ==
    IF IsNull(x) THEN Null
    ELSE IF x.t = "str" THEN PyFloat(KeepAmountChars(x.s))
    ELSE x

\* pd.to_numeric(x, errors="coerce"): a text is a number only as it stands
\* (blanks around it allowed), anything else is NaN
to_numeric(x) ==
    IF IsNull(x) THEN Null
    ELSE IF x.t = "str" THEN PyFloat(x.s)
    ELSE x

-----------------------------------------------------------------------------
(* parse_hour, bucket_time / time_bucket *)

\* A time cell is Null, a number (a Dec, in days) or a text
\* [t |-> "time", junk, hh, mm, suffix]: optional non-digit text before it
\* ("pickup 9:30 PM"), the hour digits, whether ":MM" follows, and the am/pm
\* suffix as typed.
TimeText(junk, hh, mm, suffix) ==
    [t |-> "time", junk |-> junk, hh |-> hh, mm |-> mm, suffix |-> suffix]

\* str.lower() of a suffix
LowerSuffix(sfx) ==
    IF sfx \in {"am", "AM"} THEN "am" ELSE IF sfx \in {"pm", "PM"} THEN "pm" ELSE ""

\* int(v): truncation towards zero
Trunc(d) ==
    LET p == Pow10(d.e) IN IF d.m >= 0 THEN d.m \div p ELSE -((-d.m) \div p)

\* pd.to_datetime(val, errors="coerce") followed by .hour; Null is NaT.
\*  - a number is nanoseconds since 1970-01-01T00:00: every number of the
\*    model is far below one hour of nanoseconds, so the hour is 0 (23 for a
\*    negative count, the last hour of 1969-12-31);
\*  - a text is parsed when it is a time of day on its own: "H:MM" with
\*    H <= 23, or "H[:MM] am|pm" with H <= 12; bare digits ("9") and text with
\*    other words around ("pickup 9:30 PM") are not dates and give NaT.
ToDatetimeHour(val) ==
    IF val.t = "inf" THEN Null
    ELSE IF val.t = "dec" THEN Int_(IF Trunc(val) >= 0 THEN 0 ELSE 23)
    ELSE LET sfx == LowerSuffix(val.suffix)
         IN  IF val.junk THEN Null
             ELSE IF sfx # "" THEN
                 IF val.hh > 12 THEN Null
                 ELSE IF sfx = "pm" THEN Int_(IF val.hh = 12 THEN 12 ELSE val.hh + 12)
                 ELSE Int_(IF val.hh = 12 THEN 0 ELSE val.hh)
             ELSE IF val.mm /\ val.hh <= 23 THEN Int_(val.hh)
             ELSE Null

\* the Excel branch: numbers only; int(v) of an infinite v is an OverflowError
ExcelHour(val) ==
    IF val.t = "inf" THEN Raised("OverflowError")
    ELSE IF val.t # "dec" THEN Null
    ELSE IF ~DecGt(Dec(0, 0), val) /\ ~DecGt(val, Dec(1, 0))
         THEN Int_(RoundHalfEven(val.m * 24, Pow10(val.e)) % 24)
    ELSE IF DecGt(val, Dec(1, 0))
         THEN LET frac == DecSub(val, Dec(Trunc(val), 0))
              IN  Int_(RoundHalfEven(frac.m * 24, Pow10(frac.e)) % 24)
    ELSE Null

RECURSIVE LeadingTwo(_)
LeadingTwo(n) == IF n < 100 THEN n ELSE LeadingTwo(n \div 10)

\* the first digit run of str(val) that the pattern matches
FirstDigits(val) ==
    IF val.t = "time" THEN val.hh
    ELSE LeadingTwo(Abs(Trunc(val)))

RegexHour_pm12(val) ==
    LET hh   == FirstDigits(val)
        ampm == IF val.t = "time" THEN LowerSuffix(val.suffix) ELSE ""
        h1   == IF ampm = "pm" THEN hh + 12 ELSE hh
        h2   == IF ampm = "am" /\ h1 = 12 THEN 0 ELSE h1
    IN  Int_(h2 % 24)

\* re.search(r"(\d{1,2})(?::(\d{2}))?\s*(am|pm)?", str(val).lower())
RegexHour(val) ==
    LET hh   == FirstDigits(val)
        ampm == IF val.t = "time" THEN LowerSuffix(val.suffix) ELSE ""
        h1   == IF ampm = "pm" /\ hh # 12 THEN hh + 12 ELSE hh
        h2   == IF ampm = "am" /\ h1 = 12 THEN 0 ELSE h1
    IN  Int_(h2 % 24)

\* streamlit_app.parse_hour
parse_hour(val) ==
    IF IsNull(val) THEN Null
    ELSE IF ~IsNull(ToDatetimeHour(val)) THEN ToDatetimeHour(val)
    ELSE IF ~IsNull(ExcelHour(val)) THEN ExcelHour(val)
    ELSE RegexHour(val)

\* utils.data.parse_hour
data_parse_hour(val) ==
    IF IsNull(val) THEN Null
    ELSE IF ~IsNull(ToDatetimeHour(val)) THEN ToDatetimeHour(val)
    ELSE IF ~IsNull(ExcelHour(val)) THEN ExcelHour(val)
    ELSE RegexHour(val)

bucket_time_gt6(h) ==
    IF IsNull(h) THEN "Other"
    ELSE IF 6 < h.v /\ h.v < 12 THEN "Morning"
    ELSE IF 12 <= h.v /\ h.v < 18 THEN "Afternoon"
    ELSE IF 18 <= h.v /\ h.v < 24 THEN "Evening"
    ELSE "Other"

\* streamlit_app.bucket_time
bucket_time(h) ==
    IF IsNull(h) THEN "Other"
    ELSE IF 6 <= h.v /\ h.v < 12 THEN "Morning"
    ELSE IF 12 <= h.v /\ h.v < 18 THEN "Afternoon"
    ELSE IF 18 <= h.v /\ h.v < 24 THEN "Evening"
    ELSE "Other"

\* utils.data.time_bucket (the labels carry the hour range)
time_bucket(h) ==
    IF IsNull(h) THEN "Other (00-06)"
    ELSE IF 6 <= h.v /\ h.v < 12 THEN "Morning (06-12)"
    ELSE IF 12 <= h.v /\ h.v < 18 THEN "Afternoon (12-18)"
    ELSE IF 18 <= h.v /\ h.v < 24 THEN "Evening (18-24)"
    ELSE "Other (00-06)"

-----------------------------------------------------------------------------
(* auto_map_headers: the same code in streamlit_app.py and utils/data.py *)

\* Two of the canonical fields of CANON, in dict order, with their aliases
CanonFields == <<"email", "revenue">>

Aliases(k) == IF k = "email" THEN {"email", "e-mail"} ELSE {"revenue"}

\* score_best >= 70
AcceptScore == 70

SetMax(S) == CHOOSE x \in S : \A y \in S : y <= x

\* max(fuzz.partial_ratio(c, a) for a in aliases); score[<<c, a>>] is
\* fuzz.partial_ratio(c, a), a number in 0..100 that the input fixes
ColScore(score, c, aliases) == SetMax({score[<<c, a>>] : a \in aliases})

RECURSIVE ScanCols_last(_, _, _, _, _)
ScanCols_last(cols, score, aliases, best, score_best) ==
    IF cols = <<>> THEN [best |-> best, score_best |-> score_best]
    ELSE LET c == Head(cols)
             s == ColScore(score, c, aliases)
         IN  IF s >= score_best
             THEN ScanCols_last(Tail(cols), score, aliases, c, s)
             ELSE ScanCols_last(Tail(cols), score, aliases, best, score_best)

RECURSIVE ScanCols(_, _, _, _, _)
\* for c in cols: ... if s > score_best: best, score_best = c, s
ScanCols(cols, score, aliases, best, score_best) ==
    IF cols = <<>> THEN [best |-> best, score_best |-> score_best]
    ELSE LET c == Head(cols)
             s == ColScore(score, c, aliases)
         IN  IF s > score_best
             THEN ScanCols(Tail(cols), score, aliases, c, s)
             ELSE ScanCols(Tail(cols), score, aliases, best, score_best)

\* a scan that takes the first column reaching the threshold
AutoMapAt_first(cols, score, threshold) ==
    LET reach(k) == {i \in 1..Len(cols) : ColScore(score, cols[i], Aliases(k)) >= threshold}
        mapped   == {CanonFields[i] : i \in 1..Len(CanonFields)}
    IN  [k \in {c \in mapped : reach(c) # {}} |->
            cols[CHOOSE i \in reach(k) : \A j \in reach(k) : i <= j]]

\* the mapping, a function from the mapped canonical fields to their columns,
\* for an acceptance threshold
AutoMapAt(cols, score, threshold) ==
    LET found(k) == ScanCols(cols, score, Aliases(k), "None", 0)
        mapped   == {CanonFields[i] : i \in 1..Len(CanonFields)}
    IN  [k \in {c \in mapped : found(c).score_best >= threshold} |-> found(k).best]

auto_map_headers(cols, score) == AutoMapAt(cols, score, AcceptScore)

-----------------------------------------------------------------------------
(* transform *)

\* Categorical text: a lower-case word, its casing as typed ("lower", "title",
\* "upper") and whether blanks surround it.
Cat(w, c, pad) == [t |-> "cat", w |-> w, c |-> c, pad |-> pad]

\* a string literal of the code, e.g. Lit("cancelled", "title") for "Cancelled"
Lit(w, c) == Cat(w, c, FALSE)

\* Series.astype(str): NaN becomes "nan", None becomes "None"
AsStr(x) == IF IsNull(x) THEN Lit("nan", "lower") ELSE x

\* .str.strip(), .str.lower(), .str.title()
CatStrip(x) == [x EXCEPT !.pad = FALSE]

CatLower(x) == [x EXCEPT !.c = "lower"]

CatTitle(x) == [x EXCEPT !.c = "title"]

Name(v) == [t |-> "name", v |-> v]

\* A table: the canonical fields that auto_map_headers mapped to a column of
\* the upload (or that the upload names exactly), and the rows.  A cell of a
\* field without a column reads as Null (DataFrame.get gives None).
Table(cols, rows) == [t |-> "df", cols |-> cols, rows |-> rows]

Cell(df, r, k) == IF k \in df.cols THEN r[k] ELSE Null

\* ---- streamlit_app.transform

\* the columns transform indexes with work[...]: a missing one is a KeyError
RequiredCols ==
    {"order_state", "order_value", "purchase_item_quantity", "service_mode",
     "date", "time", "country_code", "phone_number", "commission", "pg"}

\* a date cell that pd.to_datetime reads: the day it names
DateCell(d) == [t |-> "date", day |-> d]

\* pd.to_datetime(..., errors="coerce").dt.date: any other cell is NaT
ToDate(x) == IF ~IsNull(x) /\ x.t = "date" THEN x ELSE Null

RECURSIVE DigitsOnly(_)
\* re.sub(r"\D", "", s)
DigitsOnly(s) ==
    IF s = <<>> THEN <<>>
    ELSE IF Head(s) \in Digits THEN <<Head(s)>> \o DigitsOnly(Tail(s))
    ELSE DigitsOnly(Tail(s))

RECURSIVE LStripZeros(_)
\* .lstrip("0")
LStripZeros(s) == IF s # <<>> /\ Head(s) = "0" THEN LStripZeros(Tail(s)) ELSE s

\* streamlit_app.transform: work["phone"] = digits or np.nan
Phone(cc, pn) ==
    \* re.sub(r"\D", "", str(cc) if pd.notna(cc) else "") + the same of the phone
    \* number, .lstrip("0"); the cells are texts
    LET PhoneDigits ==
            LStripZeros(DigitsOnly(IF IsNull(cc) THEN <<>> ELSE cc.s)
                            \o DigitsOnly(IF IsNull(pn) THEN <<>> ELSE pn.s))
    IN  IF PhoneDigits = <<>> THEN Null ELSE Str(PhoneDigits)

\* .astype(str).str.strip().str.lower().map({...}).fillna("Completed")
NormState(x) ==
    LET s == CatLower(CatStrip(AsStr(x)))
    IN  IF s = Lit("pending", "lower") THEN Lit("pending", "title")
        ELSE IF s \in {Lit("cancelled", "lower"), Lit("canceled", "lower")}
             THEN Lit("cancelled", "title")
        ELSE Lit("completed", "title")

\* pd.to_numeric(..., errors="coerce").fillna(0).astype(int); astype(int)
\* truncates; it refuses a non-finite value (QtyRaises), for which no quantity
\* is produced
ToQty(x) ==
    LET v == to_numeric(x)
    IN  IF IsNull(v) THEN 0
        ELSE IF v = Inf THEN 0
        ELSE Trunc(v)

Financials_nofill(order_value, commission_pct, pg_pct) ==
    LET ca  == DecRound(DecMul(order_value, commission_pct), 2)
        pa  == DecRound(DecMul(order_value, pg_pct), 2)
        rev == DecRound(DecAdd(ca, pa), 2)
    IN  [commission_amount |-> ca, pg_amount |-> pa, revenue |-> rev,
         payout |-> DecRound(DecSub(order_value, rev), 2)]

\* commission_amount, pg_amount, revenue, payout
Financials(order_value, commission_pct, pg_pct) ==
    LET ca  == DecRound(DecMul(order_value, commission_pct), 2)
        pa  == DecRound(DecMul(order_value, pg_pct), 2)
        rev == DecRound(DecAdd(FillNa0(ca), FillNa0(pa)), 2)
    IN  [commission_amount |-> ca, pg_amount |-> pa, revenue |-> rev,
         payout |-> DecRound(DecSub(order_value, rev), 2)]

IsPickup(service_mode) == IF service_mode = Lit("pickup", "title") THEN 1 ELSE 0

\* DEFAULT_PARAMS: 0.40, 0.40, 2.5, 1.0, 0.2, True
DEFAULT_PARAMS ==
    [avg_order_weight_kg          |-> Dec(4, 1),
     kg_per_meal                  |-> Dec(4, 1),
     co2e_per_kg_food_rescued     |-> Dec(25, 1),
     last_mile_co2e_delivery_kg   |-> Dec(1, 0),
     last_mile_co2e_pickup_kg     |-> Dec(2, 1),
     enable_pickup_co2e_component |-> TRUE]

\* the difference of the two legs, not clamped at 0
LastMile_noclamp(params) ==
    DecSub(params.last_mile_co2e_delivery_kg, params.last_mile_co2e_pickup_kg)

\* max(deliv_co2 - pickup_co2, 0)
LastMile(params) ==
    \* max(a, b) of two floats
    LET DecMax(a, b) == IF DecGt(b, a) THEN b ELSE a
    IN
    DecMax(DecSub(params.last_mile_co2e_delivery_kg, params.last_mile_co2e_pickup_kg),
           Dec(0, 0))

\* "order_weight_kg" in cols and the column has a value that is not null
WeightGiven(cols, df) ==
    /\ "order_weight_kg" \in cols
    /\ \E i \in 1..Len(df.rows) : ~IsNull(df.rows[i].order_weight_kg)

\* the columns of work: the keys of CANON that the upload has a column for
WorkCols(df) ==
    \* the keys of CANON that the model carries
    LET CanonKeys ==
            {"order_number", "order_state", "order_value", "purchase_item_quantity",
             "service_mode", "date", "time", "store_name", "brand", "country_code",
             "phone_number", "email", "commission", "pg", "account_manager"}
    IN  df.cols \cap CanonKeys

\* work["order_food_kg"]: avg_w, or the weight column of work with avg_w in
\* its empty cells when work has one
OrderFoodKg(df, r, params) ==
    IF WeightGiven(WorkCols(df), df)
    THEN FillNa(r.order_weight_kg, params.avg_order_weight_kg)
    ELSE params.avg_order_weight_kg

\* work["co2e_avoided"]
Co2eAvoided(food_kg, sm, params) ==
    LET food == DecMul(food_kg, params.co2e_per_kg_food_rescued)
    IN  IF params.enable_pickup_co2e_component
        THEN DecAdd(food, IF sm = Lit("pickup", "title") THEN LastMile(params)
                          ELSE Dec(0, 0))
        ELSE food

\* one row of work
transform_row(df, r, params) ==
    LET ov  == to_float(Cell(df, r, "order_value"))
        hr  == parse_hour(Cell(df, r, "time"))
        cp  == pct_to_decimal(Cell(df, r, "commission"))
        pp  == pct_to_decimal(Cell(df, r, "pg"))
        fin == Financials(ov, cp, pp)
        sm  == CatTitle(AsStr(Cell(df, r, "service_mode")))
        kg  == OrderFoodKg(df, r, params)
    IN  [order_number           |-> Cell(df, r, "order_number"),
         order_state            |-> NormState(Cell(df, r, "order_state")),
         order_value            |-> ov,
         purchase_item_quantity |-> ToQty(Cell(df, r, "purchase_item_quantity")),
         service_mode           |-> sm,
         date                   |-> ToDate(Cell(df, r, "date")),
         time                   |-> Cell(df, r, "time"),
         hour                   |-> hr,
         time_bucket            |-> IF IsRaised(hr) THEN hr ELSE bucket_time(hr),
         country_code           |-> Cell(df, r, "country_code"),
         phone_number           |-> Cell(df, r, "phone_number"),
         email                  |-> Cell(df, r, "email"),
         phone                  |-> Phone(Cell(df, r, "country_code"),
                                          Cell(df, r, "phone_number")),
         brand                  |-> Cell(df, r, "brand"),
         store_name             |-> Cell(df, r, "store_name"),
         account_manager        |-> Cell(df, r, "account_manager"),
         commission             |-> Cell(df, r, "commission"),
         pg                     |-> Cell(df, r, "pg"),
         commission_pct         |-> cp,
         pg_pct                 |-> pp,
         commission_amount      |-> fin.commission_amount,
         pg_amount              |-> fin.pg_amount,
         revenue                |-> fin.revenue,
         payout                 |-> fin.payout,
         order_food_kg          |-> kg,
         meals                  |-> DecDiv(kg, params.kg_per_meal),
         co2e_avoided           |-> Co2eAvoided(kg, sm, params),
         is_pickup              |-> IsPickup(sm)]

\* .astype(int) raises: some quantity is not finite
QtyRaises(df) ==
    \E i \in 1..Len(df.rows) :
        to_numeric(Cell(df, df.rows[i], "purchase_item_quantity")) = Inf

\* .apply(parse_hour) raises on some row
HourRaises(rows) == \E i \in 1..Len(rows) : IsRaised(rows[i].hour)

\* the columns are normalised one after the other: the quantity before the hour
transform(df, params) ==
    IF ~(RequiredCols \subseteq df.cols) THEN Raised("KeyError")
    ELSE IF QtyRaises(df) THEN Raised("IntCastingNaNError")
    ELSE LET Work(rows) ==
                 IF HourRaises(rows) THEN Raised("OverflowError")
                 ELSE Table(WorkCols(df)
                                \cup {"hour", "time_bucket", "phone", "commission_pct",
                                      "pg_pct", "commission_amount", "pg_amount",
                                      "revenue", "payout", "order_food_kg", "meals",
                                      "co2e_avoided", "is_pickup"},
                            rows)
         IN  Work([i \in 1..Len(df.rows) |-> transform_row(df, df.rows[i], params)])

\* ---- utils.data.transform

\* .astype(str).str.strip().str.title(); a field without a column is a column
\* of None
DataState(df, r) ==
    CatTitle(CatStrip(IF "order_state" \in df.cols THEN AsStr(r.order_state)
                      ELSE Lit("none", "title")))

DataMode(df, r) ==
    CatTitle(IF "service_mode" \in df.cols THEN AsStr(r.service_mode)
             ELSE Lit("none", "title"))

\* comb_phone and the email fallback: the fallback is taken only when both
\* the country code and the phone number are missing
Customer(cc, pn, em) ==
    IF ~IsNull(cc) \/ ~IsNull(pn) THEN Phone(cc, pn) ELSE em

\* w["order_food_kg"]: avg_w, or the weight column of the upload as numbers
\* with avg_w in its empty cells when the upload has one
DataOrderFoodKg(df, r, params) ==
    IF WeightGiven(df.cols, df)
    THEN FillNa(to_numeric(r.order_weight_kg), params.avg_order_weight_kg)
    ELSE params.avg_order_weight_kg

\* w["pickup_co2e_saved"]
PickupCo2eSaved(sm, params) ==
    IF params.enable_pickup_co2e_component /\ sm = Lit("pickup", "title")
    THEN LastMile(params) ELSE Dec(0, 0)

\* one row of w
data_transform_row(df, r, params) ==
    LET st == DataState(df, r)
        sm == DataMode(df, r)
        kg == DataOrderFoodKg(df, r, params)
        hr == data_parse_hour(Cell(df, r, "time"))
    IN  [order_number    |-> Cell(df, r, "order_number"),
         order_state     |-> st,
         order_value     |-> to_numeric(Cell(df, r, "order_value")),
         qty             |-> ToQty(Cell(df, r, "purchase_item_quantity")),
         service_mode    |-> sm,
         date            |-> ToDate(Cell(df, r, "date")),
         time            |-> Cell(df, r, "time"),
         hour            |-> hr,
         time_bucket     |-> IF IsRaised(hr) THEN hr ELSE time_bucket(hr),
         country_code    |-> Cell(df, r, "country_code"),
         phone_number    |-> Cell(df, r, "phone_number"),
         email           |-> Cell(df, r, "email"),
         customer        |-> Customer(Cell(df, r, "country_code"),
                                      Cell(df, r, "phone_number"),
                                      Cell(df, r, "email")),
         brand           |-> Cell(df, r, "brand"),
         store_name      |-> Cell(df, r, "store_name"),
         account_manager |-> Cell(df, r, "account_manager"),
         commission_pct  |-> Cell(df, r, "commission"),
         pg_pct          |-> Cell(df, r, "pg"),
         commission      |-> Cell(df, r, "commission_amt"),
         pg              |-> Cell(df, r, "pg_amt"),
         revenue         |-> Cell(df, r, "revenue"),
         payout          |-> Cell(df, r, "payout"),
         order_food_kg   |-> kg,
         meals           |-> DecDiv(kg, params.kg_per_meal),
         co2e_food       |-> DecMul(kg, params.co2e_per_kg_food_rescued),
         pickup_co2e_saved |-> PickupCo2eSaved(sm, params),
         co2e_total      |-> DecAdd(DecMul(kg, params.co2e_per_kg_food_rescued),
                                    PickupCo2eSaved(sm, params)),
         is_pickup       |-> IsPickup(sm),
         is_cancelled    |-> IF st = Lit("cancelled", "title") THEN 1 ELSE 0]

\* a field without a column is a column of None, but pd.to_datetime(None) is
\* None and None has no .dt
data_transform(df, params) ==
    IF "date" \notin df.cols THEN Raised("AttributeError")
    ELSE IF QtyRaises(df) THEN Raised("IntCastingNaNError")
    ELSE LET W(rows) ==
                 IF HourRaises(rows) THEN Raised("OverflowError")
                 ELSE Table({"order_number", "order_state", "order_value", "qty",
                             "service_mode", "date", "time", "hour", "time_bucket",
                             "country_code", "phone_number", "email", "customer",
                             "brand", "store_name", "account_manager",
                             "commission_pct", "pg_pct", "commission", "pg", "revenue",
                             "payout", "order_food_kg", "meals", "co2e_food",
                             "pickup_co2e_saved", "co2e_total", "is_pickup",
                             "is_cancelled"},
                            rows)
         IN  W([i \in 1..Len(df.rows) |-> data_transform_row(df, df.rows[i], params)])

-----------------------------------------------------------------------------
(* Filters, KPIs and grouped tables *)

CancelledLit == Lit("cancelled", "title")
CompletedLit == Lit("completed", "title")
PickupLit == Lit("pickup", "title")

RECURSIVE SumDec(_, _)
\* Series.sum(): NaN cells are skipped, the sum of nothing is 0
SumDec(rows, col) ==
    IF rows = <<>> THEN Dec(0, 0)
    ELSE LET x == Head(rows)[col]
         IN  IF IsNull(x) THEN SumDec(Tail(rows), col)
             ELSE DecAdd(x, SumDec(Tail(rows), col))

RECURSIVE SumInt(_, _)
SumInt(rows, col) ==
    IF rows = <<>> THEN 0 ELSE Head(rows)[col] + SumInt(Tail(rows), col)

\* Series.count(): the cells that are not null
CountNotNull(rows, col) == Cardinality({i \in 1..Len(rows) : ~IsNull(rows[i][col])})

\* Series.nunique(): the distinct values that are not null
Uniques(rows, col) == {rows[i][col] : i \in 1..Len(rows)} \ {Null}

\* a / b of two floats; the callers guard b = 0
Ratio(n, d) == [t |-> "ratio", n |-> n, d |-> d]

\* streamlit_app.apply_filters (the date range is not modelled)
apply_filters(df, f) ==
    \* x[x[col].isin(vals)] when vals is not empty
    LET Narrow(rows, col, vals) ==
            IF vals = {} THEN rows ELSE SelectSeq(rows, LAMBDA r : r[col] \in vals)
    IN
    Narrow(Narrow(Narrow(Narrow(Narrow(df.rows,
        "service_mode", f.service_mode),
        "order_state", f.order_state),
        "brand", f.brand),
        "store_name", f.outlet),
        "account_manager", f.account_manager)

\* the rows of one group
GroupRows(rows, dim, g) == SelectSeq(rows, LAMBDA r : r[dim] = g)

\* a customer repeats when two rows are theirs
RepeatPct_rows(rows, cust) ==
    LET custs == Uniques(rows, cust)
    IN  IF Cardinality(custs) > 0
        THEN Ratio(Cardinality({c \in custs : Len(GroupRows(rows, cust, c)) >= 2}),
                   Cardinality(custs))
        ELSE Dec(0, 0)

\* cust_counts = df.groupby(cust)["order_number"].nunique();
\* (cust_counts >= 2).sum() / len(cust_counts) if len(cust_counts) > 0 else 0.0
RepeatPct(rows, cust) ==
    \* the distinct order numbers of one customer
    LET OrdersOf(k) == Uniques(GroupRows(rows, cust, k), "order_number")
        custs == Uniques(rows, cust)
    IN  IF Cardinality(custs) > 0
        THEN Ratio(Cardinality({c \in custs : Cardinality(OrdersOf(c)) >= 2}),
                   Cardinality(custs))
        ELSE Dec(0, 0)

\* streamlit_app.kpis
kpis(rows) ==
    LET orders == Len(rows)
        gmv    == SumDec(rows, "order_value")
    IN  [orders       |-> orders,
         gmv          |-> gmv,
         revenue      |-> SumDec(rows, "revenue"),
         payout       |-> SumDec(rows, "payout"),
         aov          |-> IF orders # 0 THEN Ratio(gmv, orders) ELSE Dec(0, 0),
         items_sold   |-> SumInt(rows, "purchase_item_quantity"),
         u_vendors    |-> Cardinality(Uniques(rows, "brand")),
         u_outlets    |-> Cardinality(Uniques(rows, "store_name")),
         u_customers  |-> Cardinality(Uniques(rows, "phone")),
         repeat_pct   |-> RepeatPct(rows, "phone"),
         pickup_share |-> IF orders > 0 THEN Ratio(SumInt(rows, "is_pickup"), orders)
                          ELSE Dec(0, 0)]

\* utils.data.exclude_cancelled
exclude_cancelled(rows) == SelectSeq(rows, LAMBDA r : r.order_state # CancelledLit)

\* utils.data.kpis_company
kpis_company(scoped) ==
    LET x      == exclude_cancelled(scoped)
        orders == Len(x)
        gmv    == SumDec(x, "order_value")
    IN  [orders       |-> orders,
         gmv          |-> gmv,
         revenue      |-> SumDec(x, "revenue"),
         payout       |-> SumDec(x, "payout"),
         aov          |-> IF orders # 0 THEN Ratio(gmv, orders) ELSE Dec(0, 0),
         items_sold   |-> SumInt(x, "qty"),
         u_vendors    |-> Cardinality(Uniques(x, "brand")),
         u_outlets    |-> Cardinality(Uniques(x, "store_name")),
         u_customers  |-> Cardinality(Uniques(x, "customer")),
         repeat_pct   |-> RepeatPct(x, "customer"),
         pickup_share |-> IF orders > 0 THEN Ratio(SumInt(x, "is_pickup"), orders)
                          ELSE Dec(0, 0)]

\* df.groupby(dim).agg(Orders=count, GMV=sum, Revenue=sum, Payout=sum,
\* AOV=mean, PickupPct=mean): one entry per value of dim that is not null
GroupTable(rows, dim) ==
    [g \in Uniques(rows, dim) |->
        LET x == GroupRows(rows, dim, g)
        IN  [Orders    |-> CountNotNull(x, "order_number"),
             GMV       |-> SumDec(x, "order_value"),
             Revenue   |-> SumDec(x, "revenue"),
             Payout    |-> SumDec(x, "payout"),
             AOV       |-> IF CountNotNull(x, "order_value") = 0 THEN Null
                           ELSE Ratio(SumDec(x, "order_value"), CountNotNull(x, "order_value")),
             PickupPct |-> Ratio(SumInt(x, "is_pickup"), Len(x))]]

\* utils.charts.bar_top: the aggregate the chart shows, before it is sorted and
\* cut to n rows (no table of the model has more groups than n)
bar_top(rows, group) ==
    LET x == SelectSeq(rows, LAMBDA r : r.order_state # CancelledLit)
    IN  [g \in Uniques(x, group) |->
            LET y == GroupRows(x, group, g)
            IN  [Orders  |-> CountNotNull(y, "order_number"),
                 GMV     |-> SumDec(y, "order_value"),
                 Items   |-> SumInt(y, "qty"),
                 Revenue |-> SumDec(y, "revenue")]]

\* the group keys of the model in the order groupby gives them (sorted)
NameOrder == <<Name("S1"), Name("S2"), Name("X"), Name("Y")>>

\* the keys of groupby(group): the values that are not null, sorted
GroupKeys(rows, group) == SelectSeq(NameOrder, LAMBDA k : k \in Uniques(rows, group))

\* a > b for the column a frame is sorted by: counts and quantities are
\* integers, sums of amounts are floats
MetricGt(by, a, b) ==
    IF by \in {"orders", "items", "Orders", "Items"} THEN a[by] > b[by]
    ELSE DecGt(a[by], b[by])

\* DataFrame.sort_values(by, ascending=False) with the default kind
\* "quicksort", which is not stable: every descending arrangement of the rows
\* is a possible result, rows with equal values in any order
SortValuesDescending(agg, by) ==
    {q \in [1..Len(agg) -> {agg[i] : i \in 1..Len(agg)}] :
        /\ \A i, j \in 1..Len(agg) : i # j => q[i] # q[j]
        /\ \A i, j \in 1..Len(agg) : i < j => ~MetricGt(by, q[j], q[i])}

\* which of two groups with equal values the sort of a build puts first:
\* the sort is an algorithm without randomness, so a build always orders the
\* same rows the same way, but which way is not specified
TieOrders ==
    LET Reverse(q) == [i \in 1..Len(q) |-> q[Len(q) + 1 - i]]
    IN  {NameOrder, Reverse(NameOrder)}

\* sort_values in one build: the descending arrangement whose rows with
\* equal values follow the tie order of the build
SortValues(agg, by, ties) ==
    LET Place(k) == CHOOSE i \in 1..Len(ties) : ties[i] = k
    IN  CHOOSE q \in SortValuesDescending(agg, by) :
            \A i, j \in 1..Len(q) :
                (i < j /\ ~MetricGt(by, q[i], q[j])) =>
                    Place(q[i].key) < Place(q[j].key)

\* DataFrame.head(n)
HeadRows(q, n) == SubSeq(q, 1, IF n < Len(q) THEN n ELSE Len(q))

\* streamlit_app.top_n: agg, one row per group in key order
TopAgg(rows, group) ==
    LET ks == GroupKeys(rows, group)
    IN  [i \in 1..Len(ks) |->
            LET y == GroupRows(rows, group, ks[i])
            IN  [key     |-> ks[i],
                 gmv     |-> SumDec(y, "order_value"),
                 orders  |-> CountNotNull(y, "order_number"),
                 revenue |-> SumDec(y, "revenue"),
                 items   |-> SumInt(y, "purchase_item_quantity")]]

\* streamlit_app.top_n: the frame it returns in a build
top_n(rows, by, group, n, ties) ==
    HeadRows(SortValues(TopAgg(rows, group), by, ties), n)

\* utils.charts.bar_top: agg after reset_index, one row per group in key order
BarTopAgg(rows, group) ==
    LET ks == GroupKeys(exclude_cancelled(rows), group)
    IN  [i \in 1..Len(ks) |-> [key |-> ks[i]] @@ bar_top(rows, group)[ks[i]]]

\* utils.charts.bar_top: the frame it returns as agg in a build
bar_top_agg(rows, group, metric, n, ties) ==
    HeadRows(SortValues(BarTopAgg(rows, group), metric, ties), n)

\* the index utils.data.peak_window_counts reindexes to
PeakBuckets ==
    <<"Morning (06-12)", "Afternoon (12-18)", "Evening (18-24)", "Other (00-06)">>

\* x.groupby("time_bucket")[...].count() or .sum(), .reindex(PeakBuckets),
\* .fillna(0): one entry per bucket, in the order of PeakBuckets
PeakSeries(scoped, value) ==
    LET x == exclude_cancelled(scoped)
    IN  [i \in 1..Len(PeakBuckets) |->
            LET y == GroupRows(x, "time_bucket", PeakBuckets[i])
            IN  [time_bucket |-> PeakBuckets[i],
                 value |-> IF value = "gmv" THEN SumDec(y, "order_value")
                           ELSE Int_(CountNotNull(y, "order_number"))]]

\* utils.data.peak_window_counts
peak_window_counts(scoped, value) ==
    \* Series.reset_index(names=...): Series.reset_index takes level, drop, name,
    \* inplace and allow_duplicates; the keyword names is a TypeError
    LET SeriesResetIndexNames(g) == Raised("TypeError")
    IN  SeriesResetIndexNames(PeakSeries(scoped, value))

-----------------------------------------------------------------------------
(* Inputs of the pure-function harness *)

MaxStrLen == 4

RECURSIVE StringsUpTo(_)
StringsUpTo(n) ==
    LET Alphabet == Digits \cup {".", "%", ",", "-", " ", "x"}
    IN
    IF n = 0 THEN {<<>>}
    ELSE LET S == StringsUpTo(n - 1)
         IN  S \cup {Append(s, c) : s \in {u \in S : Len(u) = n - 1}, c \in Alphabet}

PctInputs ==
    {Str(s) : s \in StringsUpTo(MaxStrLen)}
        \cup {Dec(m, 2) : m \in {-1200, -50, 0, 12, 100, 101, 1200}}
        \cup {Null}

-----------------------------------------------------------------------------
(* The pure-function harness: Init draws a function and an input, the one   *)
(* action of each function applies it.                                      *)

TimeInputs ==
    LET TimeNumbers ==
            {Dec(m, 2) : m \in {-150, -50, 0, 2, 25, 50, 75, 98, 100, 150, 298, 4500075}}
    IN
    \* Bare "0" is left out: whether the date parser takes it is not settled by
    \* the repository.
    LET TimeTexts ==
            LET HourDigits == {0, 1, 9, 11, 12, 13, 23, 24, 25, 99}
            IN
            {x \in {TimeText(j, h, mm, sfx) : j \in BOOLEAN, h \in HourDigits, mm \in BOOLEAN,
                                               sfx \in {"", "am", "pm", "AM", "PM"}} :
                ~(~x.junk /\ x.hh = 0 /\ ~x.mm /\ x.suffix = "")}
    IN  TimeTexts \cup TimeNumbers \cup {Null, Inf}

HourInputs == {Int_(h) : h \in -1..25} \cup {Null}

MaxCols == 2

ColNames == <<"c1", "c2", "c3", "c4">>

\* the score tables of the first n columns
ScoreTables(n) ==
    LET AllAliases == UNION {Aliases(CanonFields[i]) : i \in 1..Len(CanonFields)}
    IN
    LET ScoreVals == {0, 69, 70, 100}
    IN  [{ColNames[i] : i \in 1..n} \X AllAliases -> ScoreVals]

HeaderInput(n, sc) == [t |-> "headers", cols |-> SubSeq(ColNames, 1, n), score |-> sc]

AllRawCols ==
    {"order_number", "order_state", "order_value", "purchase_item_quantity",
     "service_mode", "date", "time", "country_code", "phone_number", "email",
     "brand", "store_name", "account_manager", "commission", "pg",
     "commission_amt", "pg_amt", "revenue", "payout"}

\* a well-formed row of an upload
BaseRow ==
    [order_number |-> Name("o1"),
     order_state |-> Lit("completed", "title"),
     order_value |-> Dec(100, 0),
     purchase_item_quantity |-> Dec(2, 0),
     service_mode |-> Lit("pickup", "title"),
     date |-> DateCell(1),
     time |-> TimeText(FALSE, 9, TRUE, "PM"),
     country_code |-> Str(<<"+", "1">>),
     phone_number |-> Str(<<"2", "0">>),
     email |-> Null,
     brand |-> Name("X"),
     store_name |-> Name("S1"),
     account_manager |-> Null,
     commission |-> Str(<<"1", "0", "%">>),
     pg |-> Str(<<"2", "%">>),
     commission_amt |-> Dec(10, 0),
     pg_amt |-> Dec(2, 0),
     revenue |-> Dec(12, 0),
     payout |-> Dec(88, 0),
     order_weight_kg |-> Null]

\* every combination of the cells that the order state and the financial
\* fields are derived from
FinancialRows ==
    \* order-state cells: "Completed", "cancelled", " CANCELLED ", "Canceled",
    \* " pending ", "refunded", and an empty cell
    LET RawStates ==
            {Lit("completed", "title"), Lit("cancelled", "lower"), Cat("cancelled", "upper", TRUE),
             Lit("canceled", "title"), Cat("pending", "lower", TRUE), Lit("refunded", "lower"), Null}
    IN
    {[BaseRow EXCEPT !.order_state = st, !.order_value = ov, !.service_mode = sm,
                     !.commission = co, !.pg = pg, !.pg_amt = pa,
                     !.revenue = rv, !.payout = py] :
        st \in RawStates,
        ov \in {Null, Dec(100, 0), Dec(50, 0), Dec(10004, 3), Dec(3333, 2)},
        sm \in {Lit("pickup", "lower"), Lit("delivery", "title")},
        co \in {Null, Str(<<"1", "0", "%">>), Str(<<"2", "%">>), Dec(125, 3), Str(<<"x">>)},
        pg \in {Null, Str(<<"2", "%">>), Dec(1, 2)},
        pa \in {Null, Dec(2, 0)},
        rv \in {Null, Dec(12, 0), Dec(7, 0)},
        py \in {Null, Dec(88, 0)}}

\* amount cells: numbers, "x 1,200.10" (a currency prefix and a thousands
\* separator), "1,2", "12", "x", "-", "1.2.0", an empty cell
AmountCells ==
    {Null, Dec(100, 0), Dec(-5, 1),
     Str(<<"x", " ", "1", ",", "2", "0", "0", ".", "1", "0">>),
     Str(<<"1", ",", "2">>), Str(<<"1", "2">>), Str(<<"x">>), Str(<<"-">>),
     Str(<<"1", ".", "2", ".", "0">>)}

\* every combination of the cells that are parsed
ParseRows ==
    LET TimeCells ==
            {Null, Inf, Dec(5, 1), TimeText(FALSE, 9, TRUE, "PM"), TimeText(TRUE, 99, FALSE, "")}
    IN
    LET DateCells == {Null, DateCell(1), Str(<<"x">>)}
    IN
    \* quantity cells: 2, -1, 2.7, "2", "x", inf, an empty cell
    LET QtyCells ==
            {Null, Dec(2, 0), Dec(-1, 0), Dec(27, 1), Str(<<"2">>), Str(<<"x">>), Inf}
    IN
    {[BaseRow EXCEPT !.order_value = ov, !.purchase_item_quantity = q,
                     !.date = d, !.time = tm, !.commission = co] :
        ov \in AmountCells, q \in QtyCells, d \in DateCells, tm \in TimeCells,
        co \in {Str(<<"1", "0", "%">>), Str(<<"x">>)}}

MaxPhoneLen == 2

RECURSIVE PhoneStrings(_)
PhoneStrings(n) ==
    IF n = 0 THEN {<<>>}
    ELSE LET S == PhoneStrings(n - 1)
         IN  S \cup {Append(q, c) : q \in {u \in S : Len(u) = n - 1}, c \in {"0", "1", "+"}}

\* every combination of the cells that the customer identity is derived from
IdentityRows ==
    LET PhoneCells == {Null} \cup {Str(q) : q \in PhoneStrings(MaxPhoneLen)}
    IN
    {[BaseRow EXCEPT !.country_code = cc, !.phone_number = pn, !.email = em] :
        cc \in PhoneCells, pn \in PhoneCells, em \in {Null, Name("a@x")}}

\* the uploads transform is called on: one row of every kind with every
\* column, the well-formed row under every column set, and two-row uploads
\* with the well-formed row after a row of parsed cells
TransformInputs ==
    LET TransformRows == FinancialRows \cup ParseRows \cup IdentityRows
    IN
    \* the columns of an upload: all of them, all but one, one only, none
    LET ColumnSets ==
            {AllRawCols, {}} \cup {AllRawCols \ {c} : c \in AllRawCols}
                \cup {{c} : c \in AllRawCols}
    IN
    {Table(AllRawCols, <<r>>) : r \in TransformRows}
        \cup {Table(cols, <<BaseRow>>) : cols \in ColumnSets}
        \cup {Table(AllRawCols, <<r, BaseRow>>) : r \in ParseRows}
        \cup {Table(AllRawCols, <<>>)}

\* the uploads the impact fields are derived from: one row with and without
\* a weight column, and two rows with a weight column, the second one weighed
ImpactInputs ==
    LET WeightCols == AllRawCols \cup {"order_weight_kg"}
    IN
    LET ImpactRows ==
            \* the cells of a per-order weight column: 1.5, "2", "x", an empty cell
            LET WeightCells == {Null, Dec(15, 1), Str(<<"2">>), Str(<<"x">>)}
            IN
            \* the service-mode cells: "Pickup", "pickup", " pickup ", " PICKUP ",
            \* "Delivery", an empty cell
            LET ModeCells ==
                    {Lit("pickup", "title"), Lit("pickup", "lower"), Cat("pickup", "lower", TRUE),
                     Cat("pickup", "upper", TRUE), Lit("delivery", "title"), Null}
            IN
            {[BaseRow EXCEPT !.service_mode = sm, !.order_weight_kg = kg] :
                sm \in ModeCells, kg \in WeightCells}
    IN
    {Table(cols, <<r>>) : cols \in {AllRawCols, WeightCols}, r \in ImpactRows}
        \cup {Table(WeightCols, <<r, [BaseRow EXCEPT !.order_weight_kg = Dec(15, 1)]>>) :
                 r \in ImpactRows}

\* the parameter configurations the Settings page can hold (every number at
\* or above the minimum of its widget): the delivery leg above, equal to
\* and below the pickup leg
ParamSets ==
    {[DEFAULT_PARAMS EXCEPT !.avg_order_weight_kg = avg, !.kg_per_meal = kpm,
                            !.last_mile_co2e_delivery_kg = lm[1],
                            !.last_mile_co2e_pickup_kg = lm[2],
                            !.enable_pickup_co2e_component = en] :
        avg \in {Dec(4, 1), Dec(0, 0)}, kpm \in {Dec(4, 1), Dec(1, 1)},
        lm \in {<<Dec(1, 0), Dec(2, 1)>>, <<Dec(2, 1), Dec(1, 0)>>,
                <<Dec(2, 1), Dec(2, 1)>>},
        en \in BOOLEAN}

\* the rows of a table given to a page or to a top-n aggregate
MaxRows == 2

MaxTop == 2

RECURSIVE TopSeqs(_)
TopSeqs(n) ==
    \* the rows of the tables given to the top-n aggregates: two brands, two
    \* amounts, completed or cancelled
    LET TopRows ==
            {[BaseRow EXCEPT !.brand = b, !.order_value = v, !.order_state = st,
                             !.revenue = Null, !.payout = Null] :
                b \in {Name("X"), Name("Y")}, v \in {Dec(100, 0), Dec(50, 0)},
                st \in {Lit("completed", "title"), Lit("cancelled", "title")}}
    IN
    IF n = 0 THEN {<<>>}
    ELSE LET S == TopSeqs(n - 1)
         IN  S \cup {Append(q, r) : q \in {u \in S : Len(u) = n - 1}, r \in TopRows}

\* a table that transform returned, the metric, the group, n and the tie
\* order of the build
TopInput(df, by, group, n, ties) ==
    [t |-> "topn", df |-> df, by |-> by, group |-> group, n |-> n, ties |-> ties]

Idle == [t |-> "idle"]

InitPure ==
    /\ \/ fn = "pct_to_decimal" /\ arg \in PctInputs
       \/ fn \in {"parse_hour", "data.parse_hour"} /\ arg \in TimeInputs
       \/ fn \in {"bucket_time", "data.time_bucket"} /\ arg \in HourInputs
       \/ /\ fn = "auto_map_headers"
          /\ \E n \in 0..MaxCols : \E sc \in ScoreTables(n) : arg = HeaderInput(n, sc)
       \/ fn \in {"transform", "data.transform"} /\ arg \in TransformInputs \cup ImpactInputs
       \/ fn \in {"to_float", "data.to_numeric"} /\ arg \in PctInputs \cup AmountCells
       \/ /\ fn \in {"top_n", "charts.bar_top"}
          /\ \E rows \in TopSeqs(MaxRows) : \E by \in {"gmv", "orders"} :
             \E group \in {"brand"} : \E n \in 1..MaxTop : \E ties \in TieOrders :
                arg = IF fn = "top_n"
                      THEN TopInput(transform(Table(AllRawCols, rows), DEFAULT_PARAMS),
                                    by, group, n, ties)
                      ELSE TopInput(data_transform(Table(AllRawCols, rows), DEFAULT_PARAMS),
                                    IF by = "gmv" THEN "GMV" ELSE "Orders", group, n, ties)
    /\ ret = NotCalled
    /\ impact_params \in IF fn \in {"transform", "data.transform"} /\ arg \in ImpactInputs
                          THEN ParamSets ELSE {DEFAULT_PARAMS}
    /\ app = "none"
    /\ raw_df = Null
    /\ data_df = Null
    /\ view = Idle

Call_pct_to_decimal ==
    /\ fn = "pct_to_decimal"
    /\ ret = NotCalled
    /\ ret' = pct_to_decimal(arg)
    /\ UNCHANGED <<fn, arg, app, raw_df, data_df, impact_params, view>>

\* transform: work["hour"] = work["time"].apply(parse_hour);
\*            work["time_bucket"] = work["hour"].apply(bucket_time)
Call_parse_hour ==
    /\ fn = "parse_hour"
    /\ ret = NotCalled
    /\ ret' = IF IsRaised(parse_hour(arg)) THEN parse_hour(arg)
              ELSE [t |-> "hour", hour |-> parse_hour(arg),
                    time_bucket |-> bucket_time(parse_hour(arg))]
    /\ UNCHANGED <<fn, arg, app, raw_df, data_df, impact_params, view>>

Call_data_parse_hour ==
    /\ fn = "data.parse_hour"
    /\ ret = NotCalled
    /\ ret' = IF IsRaised(data_parse_hour(arg)) THEN data_parse_hour(arg)
              ELSE [t |-> "hour", hour |-> data_parse_hour(arg),
                    time_bucket |-> time_bucket(data_parse_hour(arg))]
    /\ UNCHANGED <<fn, arg, app, raw_df, data_df, impact_params, view>>

Call_bucket_time ==
    /\ fn = "bucket_time"
    /\ ret = NotCalled
    /\ ret' = [t |-> "bucket", time_bucket |-> bucket_time(arg)]
    /\ UNCHANGED <<fn, arg, app, raw_df, data_df, impact_params, view>>

Call_time_bucket ==
    /\ fn = "data.time_bucket"
    /\ ret = NotCalled
    /\ ret' = [t |-> "bucket", time_bucket |-> time_bucket(arg)]
    /\ UNCHANGED <<fn, arg, app, raw_df, data_df, impact_params, view>>

Call_auto_map_headers ==
    /\ fn = "auto_map_headers"
    /\ ret = NotCalled
    /\ ret' = [t |-> "mapping", m |-> auto_map_headers(arg.cols, arg.score)]
    /\ UNCHANGED <<fn, arg, app, raw_df, data_df, impact_params, view>>

\* transform: work["order_value"] = work["order_value"].apply(to_float)
Call_to_float ==
    /\ fn = "to_float"
    /\ ret = NotCalled
    /\ ret' = [t |-> "amount", v |-> to_float(arg)]
    /\ UNCHANGED <<fn, arg, app, raw_df, data_df, impact_params, view>>

\* utils.data.transform: w["order_value"] = pd.to_numeric(w["order_value"], ...)
Call_to_numeric ==
    /\ fn = "data.to_numeric"
    /\ ret = NotCalled
    /\ ret' = [t |-> "amount", v |-> to_numeric(arg)]
    /\ UNCHANGED <<fn, arg, app, raw_df, data_df, impact_params, view>>

\* what a call leaves of the table and the parameters it was given, with
\* the parameters replaced by the defaults
LeftByCall_defaults(df, params) == [df |-> df, params |-> DEFAULT_PARAMS]

\* what a call leaves of the table and the parameters it was given:
\* transform works on normalize_cols(df), a copy, and reads params with
\* params.get; the aggregates build new frames
LeftByCall(df, params) == [df |-> df, params |-> params]

\* the result of the same call made a second time
Again(x) == [t |-> "again", ret |-> x]

\* transform(df, params); a second call is given what the first call left of
\* the table and the parameters
Call_transform ==
    /\ fn = "transform"
    /\ view = Idle
    /\ ret # NotCalled => arg \in ImpactInputs
    /\ \E given \in {IF ret = NotCalled THEN [df |-> arg, params |-> impact_params]
                                         ELSE LeftByCall(arg, impact_params)} :
       \E out \in {transform(given.df, given.params)} :
           IF ret = NotCalled
           THEN ret' = out /\ UNCHANGED view
           ELSE view' = Again(out) /\ UNCHANGED ret
    /\ UNCHANGED <<fn, arg, app, raw_df, data_df, impact_params>>

Call_data_transform ==
    /\ fn = "data.transform"
    /\ view = Idle
    /\ ret # NotCalled => arg \in ImpactInputs
    /\ \E given \in {IF ret = NotCalled THEN [df |-> arg, params |-> impact_params]
                                         ELSE LeftByCall(arg, impact_params)} :
       \E out \in {data_transform(given.df, given.params)} :
           IF ret = NotCalled
           THEN ret' = out /\ UNCHANGED view
           ELSE view' = Again(out) /\ UNCHANGED ret
    /\ UNCHANGED <<fn, arg, app, raw_df, data_df, impact_params>>

\* fig_bar: agg = top_n(df, by, group); a second call is given what the first
\* call left of the table
Call_top_n ==
    /\ fn = "top_n"
    /\ view = Idle
    /\ \E given \in {IF ret = NotCalled THEN arg.df
                                         ELSE LeftByCall(arg.df, impact_params).df} :
       \E out \in {[t |-> "top", agg |-> TopAgg(given.rows, arg.group),
                    rows |-> top_n(given.rows, arg.by, arg.group, arg.n, arg.ties)]} :
           IF ret = NotCalled
           THEN ret' = out /\ UNCHANGED view
           ELSE view' = Again(out) /\ UNCHANGED ret
    /\ UNCHANGED <<fn, arg, app, raw_df, data_df, impact_params>>

\* fig, agg = bar_top(df, group, metric, n)
Call_bar_top ==
    /\ fn = "charts.bar_top"
    /\ view = Idle
    /\ \E given \in {IF ret = NotCalled THEN arg.df
                                         ELSE LeftByCall(arg.df, impact_params).df} :
       \E out \in {[t |-> "top", agg |-> BarTopAgg(given.rows, arg.group),
                    rows |-> bar_top_agg(given.rows, arg.group, arg.by, arg.n, arg.ties)]} :
           IF ret = NotCalled
           THEN ret' = out /\ UNCHANGED view
           ELSE view' = Again(out) /\ UNCHANGED ret
    /\ UNCHANGED <<fn, arg, app, raw_df, data_df, impact_params>>

NextPure ==
    \/ Call_pct_to_decimal
    \/ Call_parse_hour
    \/ Call_data_parse_hour
    \/ Call_bucket_time
    \/ Call_time_bucket
    \/ Call_auto_map_headers
    \/ Call_to_float
    \/ Call_to_numeric
    \/ Call_transform
    \/ Call_data_transform
    \/ Call_top_n
    \/ Call_bar_top

SpecPure == InitPure /\ [][NextPure]_vars

-----------------------------------------------------------------------------
(* The two programs: uploads on the Settings page, and the pages that      *)
(* compute KPIs and grouped tables from the table in session state.        *)

RawRow(no, st, val, qty, mode, brand, store, am, com, pg, rev, pay) ==
    [BaseRow EXCEPT
        !.order_number = Name(no), !.order_state = st, !.order_value = val,
        !.purchase_item_quantity = Dec(qty, 0), !.service_mode = mode,
        !.brand = brand, !.store_name = Name(store), !.account_manager = am,
        !.commission = com, !.pg = pg, !.commission_amt = Null, !.pg_amt = Null,
        !.revenue = rev, !.payout = pay]

Pct(a, b) == Str(<<a, b, "%">>)

\* Row A and Row B of the end-to-end scenario
RowA ==
    RawRow("o1", Lit("completed", "title"), Dec(100, 0), 1, Lit("pickup", "title"),
           Name("X"), "S1", Null, Pct("1", "0"), Str(<<"2", "%">>), Dec(12, 0), Dec(88, 0))

\* the rows an upload is made of: o1, o2 and o6 are one customer (the phone of
\* BaseRow), o4 has no identity at all and o5 gives an email only
RawRows ==
    LET RowB ==
            RawRow("o2", Lit("cancelled", "title"), Dec(50, 0), 2, Lit("delivery", "title"),
                   Name("X"), "S1", Null, Str(<<"5", "%">>), Str(<<"1", "%">>),
                   Dec(3, 0), Dec(47, 0))
    IN
    {RowA, RowB,
     [RawRow("o4", Lit("canceled", "lower"), Dec(20, 0), 1, Lit("delivery", "title"),
             Name("Y"), "S1", Name("Ann"), Pct("1", "0"), Str(<<"2", "%">>),
             Dec(24, 1), Dec(176, 1))
         EXCEPT !.country_code = Null, !.phone_number = Null, !.time = Dec(5, 1)],
     [RawRow("o5", Cat("pending", "lower", TRUE), Dec(10, 0), 3, Lit("pickup", "lower"),
             Name("X"), "S2", Null, Null, Str(<<"2", "%">>), Dec(2, 1), Dec(98, 1))
         EXCEPT !.country_code = Null, !.phone_number = Null, !.email = Name("a@x"),
                !.time = TimeText(FALSE, 9, TRUE, "")],
     RawRow("o6", Lit("completed", "title"), Dec(40, 0), 1, Lit("delivery", "title"),
            Null, "S2", Name("Ann"), Pct("1", "0"), Str(<<"2", "%">>),
            Dec(48, 1), Dec(352, 1))}

RECURSIVE RowSeqs(_)
RowSeqs(n) ==
    IF n = 0 THEN {<<>>}
    ELSE LET S == RowSeqs(n - 1)
         IN  S \cup {Append(q, r) : q \in {u \in S : Len(u) = n - 1}, r \in RawRows}

\* a file that pd.read_excel / pd.read_csv cannot read
Unreadable == [t |-> "unreadable"]

Uploads ==
    \* the uploads that fail: a file that cannot be read and a sheet without a
    \* date column, which transform does not accept
    LET FailingUploads == {Unreadable, Table(AllRawCols \ {"date"}, <<RowA>>)}
    IN
    \* the uploads that transform: every column present, up to MaxRows rows
    LET RawTables == {Table(AllRawCols, rows) : rows \in RowSeqs(MaxRows)}
    IN  RawTables \cup FailingUploads

\* the filter bar: order states (default Completed) and brands; the service
\* mode, outlet and account-manager selections stay empty
FilterStates ==
    [service_mode : {{}},
     order_state : SUBSET {CancelledLit, CompletedLit},
     brand : {{}, {Name("X")}},
     outlet : {{}},
     account_manager : {{}}]

NoTable == [t |-> "none"]

Init ==
    /\ app \in {"single", "multi"}
    /\ raw_df = Null
    /\ data_df = Null
    /\ impact_params = DEFAULT_PARAMS
    /\ view = [page |-> "Company", stopped |-> TRUE, error |-> ""]
    /\ fn = "none"
    /\ arg = Null
    /\ ret = NotCalled

\* the uploader of the Settings page holds no file
NoFile == [t |-> "nofile"]

\* the parameter configurations of the Settings page: the defaults, and the
\* pickup component switched off
SessionParams ==
    {DEFAULT_PARAMS, [DEFAULT_PARAMS EXCEPT !.enable_pickup_co2e_component = FALSE]}

\* what the Settings page shows: the file its uploader holds (st.file_uploader
\* returns it on every run of the script until the page is left) and
\* st.error("Failed to read file: ...") or not
SettingsView(up, error) ==
    [page |-> "Settings", stopped |-> FALSE, up |-> up, error |-> error]

\* the Settings page opened from another page: the uploader is empty and the
\* parameter widgets show the stored configuration
Settings ==
    /\ view.page # "Settings"
    /\ view' = SettingsView(NoFile, "")
    /\ UNCHANGED <<fn, arg, ret, app, raw_df, data_df, impact_params>>

\* transform(df, params) of streamlit_app and of utils.data for every sheet
\* that can be read and every parameter configuration of the Settings page
\* (the results the two Settings pages store)
Sheets == Uploads \ {Unreadable}

transform_of == [df \in Sheets, params \in SessionParams |-> transform(df, params)]

data_transform_of ==
    [df \in Sheets, params \in SessionParams |-> data_transform(df, params)]

\* streamlit_app.view_settings, one run of the script on the Settings page:
\* a file is put in the uploader or a parameter widget is edited (the
\* uploader keeps its file).  The parameter widgets give params, which is
\* stored; with a file in the uploader, the file is read, raw_df is stored,
\* then the transform; every exception is caught and reported
view_settings ==
    /\ app = "single"
    /\ view.page = "Settings"
    /\ \E params \in SessionParams : \E up \in Uploads \cup {view.up} :
        /\ params # impact_params => up = view.up
        /\ impact_params' = params
        /\ IF up = NoFile
           THEN /\ view' = SettingsView(up, "")
                /\ UNCHANGED <<raw_df, data_df>>
           ELSE IF up = Unreadable
           THEN /\ view' = SettingsView(up, "Failed to read file")
                /\ UNCHANGED <<raw_df, data_df>>
           ELSE /\ raw_df' = up
                /\ IF IsRaised(transform_of[up, params])
                   THEN /\ view' = SettingsView(up, "Failed to read file")
                        /\ UNCHANGED data_df
                   ELSE /\ data_df' = transform_of[up, params]
                        /\ view' = SettingsView(up, "")
    /\ UNCHANGED <<fn, arg, ret, app>>

\* 5_Settings.py, one run of the script: a file is put in the uploader or a
\* parameter widget is edited (the uploader keeps its file).  The parameter
\* widgets give params, which is stored; with a file in the uploader, the
\* file is read and transformed, then data_df is stored; every exception is
\* caught and reported
Settings_run ==
    /\ app = "multi"
    /\ view.page = "Settings"
    /\ \E params \in SessionParams : \E up \in Uploads \cup {view.up} :
        /\ params # impact_params => up = view.up
        /\ impact_params' = params
        /\ IF up = NoFile
           THEN /\ view' = SettingsView(up, "")
                /\ UNCHANGED data_df
           ELSE IF up = Unreadable \/ IsRaised(data_transform_of[up, params])
           THEN /\ view' = SettingsView(up, "Failed to read file")
                /\ UNCHANGED data_df
           ELSE /\ data_df' = data_transform_of[up, params]
                /\ view' = SettingsView(up, "")
    /\ UNCHANGED <<fn, arg, ret, app, raw_df>>

\* a page opened before any upload: st.info(...); st.stop()
PageWithoutData ==
    /\ IsNull(data_df)
    /\ \E pg \in {"Company", "Vendor", "Account Manager"} :
           view' = [page |-> pg, stopped |-> TRUE, error |-> ""]
    /\ UNCHANGED <<fn, arg, ret, app, raw_df, data_df, impact_params>>

\* no chart of the page has been clicked
NoClicks == [peak |-> {}, donut |-> {}, brand |-> {}, outlet |-> {}]

\* what a page computed: the table it scoped to, its KPIs, its peak-window
\* counts, its grouped table (grid), the aggregates of its top-n charts and
\* the exception that ended the script, if any; the pages of the single-file
\* app draw their charts with st.plotly_chart and have no drill table
Rendered(pg, scoped, kpi, peak, dim, grid, tops, error) ==
    [page |-> pg, stopped |-> FALSE, scoped |-> scoped, kpi |-> kpi, peak |-> peak,
     dim |-> dim, grid |-> grid, tops |-> tops, clicks |-> NoClicks,
     drill |-> NoTable, error |-> error]

\* what plotly_events can return for the charts of a page: the category of
\* a chart that the last run of the page drew, or nothing
ClicksOn(pg, v) ==
    IF v.page = pg /\ ~v.stopped /\ v.error = ""
    THEN [peak   : {{}} \cup {{v.peak[i].time_bucket} : i \in 1..Len(v.peak)},
          donut  : {{}} \cup {{m} : m \in Uniques(exclude_cancelled(v.scoped), "service_mode")},
          brand  : {{}} \cup {{g} : g \in Uniques(exclude_cancelled(v.scoped), "brand")},
          outlet : {{}} \cup {{g} : g \in Uniques(exclude_cancelled(v.scoped), "store_name")}]
    ELSE {NoClicks}

\* df[mask]: the rows that match every clicked category among the charts
\* the page has (drills)
DrillRows(df, drills, clicks) ==
    SelectSeq(df, LAMBDA r :
        /\ ("peak" \in drills /\ clicks.peak # {}) => r.time_bucket \in clicks.peak
        /\ ("donut" \in drills /\ clicks.donut # {}) => r.service_mode \in clicks.donut
        /\ ("brand" \in drills /\ clicks.brand # {}) => r.brand \in clicks.brand
        /\ ("outlet" \in drills /\ clicks.outlet # {}) => r.store_name \in clicks.outlet)

\* streamlit_app.view_company
view_company ==
    /\ app = "single"
    /\ ~IsNull(data_df)
    /\ \E f \in FilterStates :
        LET scoped == apply_filters(data_df, f)
        IN  view' = Rendered("Company", scoped, kpis(scoped), NoTable, "brand",
                             GroupTable(scoped, "brand"), <<>>, "")
    /\ UNCHANGED <<fn, arg, ret, app, raw_df, data_df, impact_params>>

\* streamlit_app.view_vendor: the vendor selection replaces the brand filter
view_vendor ==
    /\ app = "single"
    /\ ~IsNull(data_df)
    /\ \E f \in FilterStates :
        LET scoped == apply_filters(data_df, f)
        IN  view' = Rendered("Vendor", scoped, kpis(scoped), NoTable, "store_name",
                             GroupTable(scoped, "store_name"), <<>>, "")
    /\ UNCHANGED <<fn, arg, ret, app, raw_df, data_df, impact_params>>

\* streamlit_app.view_am
view_am ==
    /\ app = "single"
    /\ ~IsNull(data_df)
    /\ \E f \in FilterStates : \E am \in {{}, {Name("Ann")}} :
        LET scoped == apply_filters(data_df, [f EXCEPT !.account_manager = am])
        IN  view' = Rendered("Account Manager", scoped, kpis(scoped), NoTable, "brand",
                             GroupTable(scoped, "brand"), <<>>, "")
    /\ UNCHANGED <<fn, arg, ret, app, raw_df, data_df, impact_params>>

\* a page of the multi-page app: the KPIs, then the peak-window chart, then
\* the top-n charts, the drill table and the grouped table; an exception
\* ends the script and what was drawn before it stays on the page
PageBody(pg, df, dim, groups, drills, clicks) ==
    LET pk == peak_window_counts(df, "orders")
    IN  IF IsRaised(pk)
        THEN Rendered(pg, df, kpis_company(df), pk, "none", NoTable, <<>>, pk.what)
        ELSE [Rendered(pg, df, kpis_company(df), pk, dim,
                       IF dim = "none" THEN NoTable ELSE GroupTable(df, dim),
                       [i \in 1..Len(groups) |->
                           [group |-> groups[i], agg |-> bar_top(df, groups[i])]],
                       "")
                 EXCEPT !.clicks = clicks, !.drill = DrillRows(df, drills, clicks)]

\* 1_Company.py: KPIs, the peak-window chart and the top-10 charts; no
\* grouped table
Page_Company ==
    /\ app = "multi"
    /\ ~IsNull(data_df)
    /\ \E clicks \in ClicksOn("Company", view) :
           view' = PageBody("Company", data_df.rows, "none", <<"brand", "store_name">>,
                            {"peak", "donut", "brand", "outlet"}, clicks)
    /\ UNCHANGED <<fn, arg, ret, app, raw_df, data_df, impact_params>>

\* 2_Vendor.py: the vendor multiselect, KPIs, the peak-window chart, the
\* outlets chart and the outlets table
Page_Vendor ==
    /\ app = "multi"
    /\ ~IsNull(data_df)
    /\ \E sel \in SUBSET Uniques(data_df.rows, "brand") :
        \E clicks \in ClicksOn("Vendor", view) :
        LET df == IF sel # {} THEN SelectSeq(data_df.rows, LAMBDA r : r.brand \in sel)
                  ELSE data_df.rows
        IN  view' = PageBody("Vendor", df, "store_name", <<"store_name">>,
                             {"peak", "donut", "outlet"}, clicks)
    /\ UNCHANGED <<fn, arg, ret, app, raw_df, data_df, impact_params>>

\* df = df_all with a column am_filled, df_all itself with it too
AmFrame_alias(df_all) ==
    LET df == [df_all EXCEPT !.cols = @ \cup {"am_filled"}]
    IN  [df_all |-> df, df |-> df]

\* df = df_all.copy(); df["am_filled"] = ...: the column is added to the
\* copy, df_all is the table of the session state
AmFrame(df_all) ==
    [df_all |-> df_all, df |-> [df_all EXCEPT !.cols = @ \cup {"am_filled"}]]

\* account_manager.fillna("Unassigned")
AmFilled(r) == IF IsNull(r.account_manager) THEN Name("Unassigned") ELSE r.account_manager

\* the options of the selectbox; without options it returns None
AmOptions(rows) ==
    IF rows = <<>> THEN {Null} ELSE {AmFilled(rows[i]) : i \in 1..Len(rows)}

\* 4_Account_Manager.py: the account-manager selectbox, KPIs, the peak-window
\* chart, the vendors chart and the vendors table
Page_Account_Manager ==
    /\ app = "multi"
    /\ ~IsNull(data_df)
    /\ \E am \in AmOptions(data_df.rows) :
        \E clicks \in ClicksOn("Account Manager", view) :
        LET df == SelectSeq(AmFrame(data_df).df.rows, LAMBDA r : AmFilled(r) = am)
        IN  view' = PageBody("Account Manager", df, "brand", <<"brand">>,
                             {"peak", "donut", "brand"}, clicks)
    /\ data_df' = AmFrame(data_df).df_all
    /\ UNCHANGED <<fn, arg, ret, app, raw_df, impact_params>>

Next ==
    \/ Settings
    \/ view_settings
    \/ Settings_run
    \/ PageWithoutData
    \/ view_company
    \/ view_vendor
    \/ view_am
    \/ Page_Company
    \/ Page_Vendor
    \/ Page_Account_Manager

Spec == Init /\ [][Next]_vars

-----------------------------------------------------------------------------
(* Properties of the pure functions, under SpecPure *)

Called == ret.t # "notcalled"

\* the call returned a value
Returned == Called /\ ~IsRaised(ret)

HourFns == {"parse_hour", "data.parse_hour"}

\* the four-way partition of the hours
PartitionOf(h) ==
    IF IsNull(h) THEN "Other"
    ELSE IF h.v \in 6..11 THEN "Morning"
    ELSE IF h.v \in 12..17 THEN "Afternoon"
    ELSE IF h.v \in 18..23 THEN "Evening"
    ELSE "Other"

\* the bucket a label of either program names
BucketName(label) ==
    IF label \in {"Morning", "Morning (06-12)"} THEN "Morning"
    ELSE IF label \in {"Afternoon", "Afternoon (12-18)"} THEN "Afternoon"
    ELSE IF label \in {"Evening", "Evening (18-24)"} THEN "Evening"
    ELSE IF label \in {"Other", "Other (00-06)"} THEN "Other"
    ELSE "?"

\* C6: time_bucket is a function of hour alone: [6,12) Morning, [12,18)
\* Afternoon, [18,24) Evening, any other hour Other, an undefined hour Other;
\* in both programs, called on an hour and as transform derives it from the
\* parsed hour.
C6_BucketIsPartitionOfHour ==
    Returned =>
        /\ fn \in {"bucket_time", "data.time_bucket"}
              => BucketName(ret.time_bucket) = PartitionOf(arg)
        /\ fn \in HourFns => BucketName(ret.time_bucket) = PartitionOf(ret.hour)

C6_Witness ==
    /\ fn = "bucket_time" /\ Called /\ arg = Int_(18) /\ ret.time_bucket = "Evening"

\* round(v * 24) mod 24
DayFractionHour(v) == RoundHalfEven(v.m * 24, Pow10(v.e)) % 24

\* C7: for a numeric time value v, parse_hour returns round(v*24) mod 24 when
\* 0 <= v <= 1 and round(frac(v)*24) mod 24 when v > 1, so 0.5 yields hour 12
\* and bucket Afternoon.
C7_NumericTimeIsDayFraction ==
    (Returned /\ fn \in HourFns /\ arg.t = "dec" /\ arg.m >= 0) =>
        /\ ~DecGt(arg, Dec(1, 0)) => ret.hour = Int_(DayFractionHour(arg))
        /\ DecGt(arg, Dec(1, 0))
              => ret.hour = Int_(DayFractionHour(DecSub(arg, Dec(Trunc(arg), 0))))
        /\ arg = Dec(5, 1)
              => ret.hour = Int_(12) /\ BucketName(ret.time_bucket) = "Afternoon"

\* a clock reading: 1..12 with am/pm, 0..23 without
ValidClock(x) ==
    IF x.suffix = "" THEN x.hh \in 0..23 ELSE x.hh \in 1..12

\* the standard 12-hour to 24-hour conversion
Std24(h, sfx) ==
    IF sfx = "pm" THEN (h % 12) + 12
    ELSE IF sfx = "am" THEN h % 12
    ELSE h

PctNumber(x) ==
    IF x.t = "str" THEN PyFloat(Remove(Remove(x.s, "%"), ",")) ELSE x

Text12 == Str(<<"1", "2">>)
Text12Pct == Str(<<"1", "2", "%">>)
Text012 == Str(<<"0", ".", "1", "2">>)

\* C9 as stated: the value is divided by 100 when its magnitude is greater
\* than 1 and returned unchanged when its magnitude is at most 1.
C9_PctDividesWhenMagnitudeOver1 ==
    (Called /\ fn = "pct_to_decimal" /\ ~IsNull(arg) /\ ~IsNull(PctNumber(arg))) =>
        LET v == PctNumber(arg)
        IN  IF Abs(v.m) > Pow10(v.e)
            THEN DecMul(ret, Dec(100, 0)) = v
            ELSE ret = v

\* C9 (amended): pct_to_decimal strips "%" and thousands separators and then
\* returns value/100 when the value is greater than 1 and the value unchanged
\* when it is at most 1 (every negative value included); "12", "12%" and
\* "0.12" all give 0.12, and an unparsable string gives undefined.
C9_PctDividesWhenValueOver1 ==
    (Called /\ fn = "pct_to_decimal") =>
        /\ (~IsNull(arg) /\ ~IsNull(PctNumber(arg))) =>
              LET v == PctNumber(arg)
              IN  IF v.m > Pow10(v.e)
                  THEN ~IsNull(ret) /\ DecMul(ret, Dec(100, 0)) = v
                  ELSE ret = v
        /\ (IsNull(arg) \/ IsNull(PctNumber(arg))) => IsNull(ret)
        /\ arg \in {Text12, Text12Pct, Text012} => ret = Dec(12, 2)

C9_Witness ==
    /\ fn = "pct_to_decimal" /\ Called /\ arg = Text12Pct /\ ret = Dec(12, 2)

\* the score of the i-th column for field k, and the best score of the field
ScoreOfCol(a, k, i) == ColScore(a.score, a.cols[i], Aliases(k))

BestScore(a, k) ==
    IF a.cols = <<>> THEN 0
    ELSE SetMax({ScoreOfCol(a, k, i) : i \in 1..Len(a.cols)})

FirstBest(a, k) ==
    CHOOSE i \in 1..Len(a.cols) :
        /\ ScoreOfCol(a, k, i) = BestScore(a, k)
        /\ \A j \in 1..(i - 1) : ScoreOfCol(a, k, j) < BestScore(a, k)

\* C10: a canonical field is mapped iff the maximum over raw columns of the
\* maximum-over-aliases score is at least 70; it is mapped to the first column
\* in iteration order that attains the maximum; a field below 70 is absent.
C10_MappedIffBestScoreAccepted ==
    (Called /\ fn = "auto_map_headers") =>
        \A i \in 1..Len(CanonFields) :
            LET k == CanonFields[i]
            IN  /\ k \in DOMAIN ret.m <=> BestScore(arg, k) >= 70
                /\ k \in DOMAIN ret.m => ret.m[k] = arg.cols[FirstBest(arg, k)]

C10_Witness ==
    /\ fn = "auto_map_headers" /\ Called
    /\ Len(arg.cols) = 2
    /\ ScoreOfCol(arg, "email", 1) = 70 /\ ScoreOfCol(arg, "email", 2) = 70
    /\ DOMAIN ret.m = {"email"} /\ ret.m["email"] = "c1"

Pending == Lit("pending", "title")
Cancelled == Lit("cancelled", "title")
Completed == Lit("completed", "title")

\* the state a raw cell stands for: trimmed, compared without regard to case
StateOfRaw(x) ==
    IF IsNull(x) THEN Completed
    ELSE IF x.w = "pending" THEN Pending
    ELSE IF x.w \in {"cancelled", "canceled"} THEN Cancelled
    ELSE Completed

TransformFns == {"transform", "data.transform"}

\* C3: after transform every row's order_state is exactly one of Pending,
\* Cancelled, Completed: "pending" gives Pending, "cancelled" or "canceled"
\* gives Cancelled (trimmed, any case), every other value, blank or missing
\* included, gives Completed.
C3_OrderStateIsOneOfThree ==
    (Called /\ fn \in TransformFns /\ ret.t = "df") =>
        \A i \in 1..Len(ret.rows) :
            /\ ret.rows[i].order_state \in {Pending, Cancelled, Completed}
            /\ ret.rows[i].order_state
                   = StateOfRaw(Cell(arg, arg.rows[i], "order_state"))

\* revenue and payout of a row from its commission and payment-gateway amounts
RevenueOf(ca, pa) == DecRound(DecAdd(FillNa0(ca), FillNa0(pa)), 2)

PayoutOf(order_value, revenue) == DecRound(DecSub(order_value, revenue), 2)

\* C4 as stated, for the normalized table of either program (the multi-page
\* table holds the commission and payment-gateway amounts in its columns
\* commission and pg).
C4_RevenueIsSumOfFees ==
    (Called /\ fn \in TransformFns /\ ret.t = "df") =>
        \A i \in 1..Len(ret.rows) :
            LET r  == ret.rows[i]
                ca == IF fn = "transform" THEN r.commission_amount ELSE r.commission
                pa == IF fn = "transform" THEN r.pg_amount ELSE r.pg
            IN  /\ r.revenue = RevenueOf(ca, pa)
                /\ r.payout = PayoutOf(r.order_value, r.revenue)

\* C4 (amended): for every row of the normalized table of the single-file app
\* revenue equals commission_amount + pg_amount rounded to 2 decimals, a
\* missing component counted as zero, and payout equals order_value - revenue
\* rounded to 2 decimals; the multi-page transform copies revenue and payout
\* from the upload's Revenue and Payout columns.
C4_RevenueIsSumOfFeesSingleFile ==
    (Called /\ fn \in TransformFns /\ ret.t = "df") =>
        \A i \in 1..Len(ret.rows) :
            LET r == ret.rows[i]
            IN  IF fn = "transform"
                THEN /\ r.revenue = RevenueOf(r.commission_amount, r.pg_amount)
                     /\ ~IsNull(r.revenue)
                     /\ r.payout = PayoutOf(r.order_value, r.revenue)
                ELSE /\ r.revenue = Cell(arg, arg.rows[i], "revenue")
                     /\ r.payout = Cell(arg, arg.rows[i], "payout")

\* a row with a missing commission: revenue is the payment-gateway amount alone
C4_Witness ==
    /\ fn = "transform" /\ Called /\ ret.t = "df"
    /\ Len(ret.rows) = 1
    /\ IsNull(ret.rows[1].commission_amount)
    /\ ret.rows[1].pg_amount = Dec(2, 0)
    /\ ret.rows[1].revenue = Dec(2, 0)
    /\ ret.rows[1].payout = Dec(98, 0)

-----------------------------------------------------------------------------
(* Properties of the pages, under Spec *)

\* a page that has computed KPIs from the table in session state
KpiPage == ~view.stopped /\ view.page # "Settings"

NonCancelled(rows) == SelectSeq(rows, LAMBDA r : r.order_state # CancelledLit)

\* the field of the normalized rows that holds the item quantity
QtyField == IF app = "single" THEN "purchase_item_quantity" ELSE "qty"

\* the field of the normalized rows that holds the customer identity
CustomerField == IF app = "single" THEN "phone" ELSE "customer"

\* the KPIs of a table, computed over its non-cancelled rows only
KpisOverNonCancelled(rows) ==
    LET x      == NonCancelled(rows)
        orders == Len(x)
        gmv    == SumDec(x, "order_value")
    IN  [orders       |-> orders,
         gmv          |-> gmv,
         revenue      |-> SumDec(x, "revenue"),
         payout       |-> SumDec(x, "payout"),
         aov          |-> IF orders # 0 THEN Ratio(gmv, orders) ELSE Dec(0, 0),
         items_sold   |-> SumInt(x, QtyField),
         u_vendors    |-> Cardinality(Uniques(x, "brand")),
         u_outlets    |-> Cardinality(Uniques(x, "store_name")),
         u_customers  |-> Cardinality(Uniques(x, CustomerField)),
         repeat_pct   |-> RepeatPct(x, CustomerField),
         pickup_share |-> IF orders > 0 THEN Ratio(SumInt(x, "is_pickup"), orders)
                          ELSE Dec(0, 0)]

\* C1: whatever the filters and selections, every scalar KPI a page shows is
\* computed over the rows of its scoped table that are not Cancelled; a scoped
\* table of Cancelled rows only shows orders = 0 and GMV = 0.
C1_KpisExcludeCancelled ==
    KpiPage =>
        /\ view.kpi = KpisOverNonCancelled(view.scoped)
        /\ (NonCancelled(view.scoped) = <<>>) =>
               (view.kpi.orders = 0 /\ view.kpi.gmv = Dec(0, 0))

\* C2: every grouped table a page shows (and every top-n aggregate) is the
\* grouping of the non-cancelled rows of its scoped table, so no Cancelled
\* order counts in a group's Orders, GMV, Revenue, Payout, AOV or PickupPct.
C2_GroupedTablesExcludeCancelled ==
    KpiPage =>
        /\ (view.dim # "none") =>
               view.grid = GroupTable(NonCancelled(view.scoped), view.dim)
        /\ \A i \in 1..Len(view.tops) :
               view.tops[i].agg = bar_top(NonCancelled(view.scoped), view.tops[i].group)

\* the upload of the end-to-end scenario is in session state
ScenarioLoaded ==
    /\ ~IsNull(data_df)
    /\ Len(data_df.rows) = 2
    /\ data_df.rows[1].order_number = Name("o1")
    /\ data_df.rows[2].order_number = Name("o2")

\* C5: upload, transform, KPIs: the KPI revenue of a page is the sum of the
\* per-row revenue over the non-cancelled rows of its scoped table; with rows
\* A and B uploaded, row A has revenue 12.00 and payout 88.00, and a page that
\* scopes to both rows shows orders = 1, GMV = 100.00 and revenue = 12.00.
C5_EndToEndRevenue ==
    KpiPage =>
        /\ view.kpi.revenue = SumDec(NonCancelled(view.scoped), "revenue")
        /\ (ScenarioLoaded /\ Len(view.scoped) = 2) =>
               /\ data_df.rows[1].revenue = Dec(12, 0)
               /\ data_df.rows[1].payout = Dec(88, 0)
               /\ view.kpi.orders = 1
               /\ view.kpi.gmv = Dec(100, 0)
               /\ view.kpi.revenue = Dec(12, 0)

-----------------------------------------------------------------------------
(* Header mapping and the acceptance threshold *)

\* acceptance thresholds: one for each range the scores of the model (0, 69,
\* 70, 100) can tell apart, the one of the code among them
Thresholds == {69, AcceptScore, 100}

\* m is a sub-mapping of n: every field of m is a field of n, same column
SubMapping(m, n) == DOMAIN m \subseteq DOMAIN n /\ \A k \in DOMAIN m : m[k] = n[k]

\* C11: for the same columns and alias scores, the mapping made with a higher
\* acceptance threshold is a sub-mapping of the one made with a lower
\* threshold: no field newly mapped, same column for every field still mapped.
C11_MappingMonotonicInThreshold ==
    (Called /\ fn = "auto_map_headers") =>
        LET at == [th \in Thresholds |-> AutoMapAt(arg.cols, arg.score, th)]
        IN  /\ ret.m = at[AcceptScore]
            /\ \A lo \in Thresholds : \A hi \in Thresholds :
                   lo <= hi => SubMapping(at[hi], at[lo])

\* a field is mapped at 70 and lost at 71, another stays on its column
C11_Witness ==
    /\ fn = "auto_map_headers" /\ Called
    /\ DOMAIN ret.m = {"email", "revenue"}
    /\ DOMAIN AutoMapAt(arg.cols, arg.score, 71) = {"revenue"}
    /\ AutoMapAt(arg.cols, arg.score, 71)["revenue"] = ret.m["revenue"]
    /\ ret.m["revenue"] = "c2"

-----------------------------------------------------------------------------
(* transform: missing columns and cells that do not parse *)

\* fields that transform carries over as they are
CarriedFields ==
    {"order_number", "brand", "store_name", "account_manager", "email", "time"}

\* C12: transform succeeds whatever subset of the canonical fields has no
\* column in the upload (none at all included): no error is raised and every
\* field without a column is null, or absent, in the normalized table.
C12_TransformToleratesUnmappedFields ==
    (Called /\ fn \in TransformFns /\ arg.rows = <<BaseRow>>) =>
        /\ ~IsRaised(ret)
        /\ \A k \in CarriedFields \ arg.cols :
               k \in ret.cols => IsNull(ret.rows[1][k])

\* the number a raw amount denotes: every character but digits, the decimal
\* point and the minus sign removed, the rest read as a number
AmountOf(x) ==
    IF IsNull(x) THEN Null
    ELSE IF x.t = "str"
         THEN PyFloat(SelectSeq(x.s, LAMBDA c : c \in Digits \cup {".", "-"}))
    ELSE x

AmountFns == {"to_float", "data.to_numeric"}

\* C13: the order value is the raw amount with every character but digits,
\* the decimal point and the minus sign removed, parsed as a number (so
\* "x 1,200.10" gives 1200.1); what still does not parse is undefined, never 0;
\* for the conversion of either program and for the order_value of the rows of
\* transform.
C13_AmountKeepsDigitsPointMinus ==
    /\ (Called /\ fn \in AmountFns) =>
           /\ ret.v = AmountOf(arg)
           /\ arg = Str(<<"x", " ", "1", ",", "2", "0", "0", ".", "1", "0">>)
                  => ret.v = Dec(12001, 1)
    /\ (Called /\ fn \in TransformFns /\ ret.t = "df" /\ "order_value" \in arg.cols) =>
           \A j \in 1..Len(ret.rows) :
               ret.rows[j].order_value = AmountOf(arg.rows[j].order_value)

\* the normalized well-formed row, as transform gives it on its own
BaseRowAlone == IF fn = "transform" THEN transform_row(Table(AllRawCols, <<>>), BaseRow, DEFAULT_PARAMS)
                ELSE data_transform_row(Table(AllRawCols, <<>>), BaseRow, DEFAULT_PARAMS)

QtyOf(r) == IF fn = "transform" THEN r.purchase_item_quantity ELSE r.qty

\* C14: a cell that does not parse (amount, percentage, time, date, quantity)
\* never makes transform fail: the table has as many rows as the upload, the
\* field of that row is undefined (0 for the quantity) and the other rows are
\* as they would be without it.
C14_UnparsableCellNeverFailsTransform ==
    (Called /\ fn \in TransformFns /\ arg.cols = AllRawCols) =>
        /\ ~IsRaised(ret)
        /\ ret.t = "df" =>
            /\ Len(ret.rows) = Len(arg.rows)
            /\ Len(ret.rows) = 2 => ret.rows[2] = BaseRowAlone
            /\ \A j \in 1..Len(ret.rows) :
                /\ arg.rows[j].date = Str(<<"x">>) => IsNull(ret.rows[j].date)
                /\ arg.rows[j].purchase_item_quantity = Str(<<"x">>)
                       => QtyOf(ret.rows[j]) = 0
                /\ arg.rows[j].order_value = Str(<<"x">>)
                       => IsNull(ret.rows[j].order_value)
                /\ arg.rows[j].time = TimeText(TRUE, 99, FALSE, "")
                       => (IsNull(ret.rows[j].hour) \/ ret.rows[j].hour.v \in 0..23)

\* the Settings page reports a failed upload
UploadFailed == view.page = "Settings" /\ view.error # ""

\* C15: when an upload fails (the file cannot be read or transform raises),
\* the failure is reported and the session state that holds the previously
\* loaded data (raw_df and data_df) is exactly what it was before the attempt.
C15_FailedUploadLeavesSessionState ==
    [][UploadFailed' => (raw_df' = raw_df /\ data_df' = data_df)]_vars

\* the rows the KPIs of the page aggregate: kpis takes the scoped table,
\* kpis_company its non-cancelled rows
KpiRows == IF app = "single" THEN view.scoped ELSE NonCancelled(view.scoped)

\* the customers of the rows; rows without a customer do not count
CustomersOf(rows) == {rows[i][CustomerField] : i \in 1..Len(rows)} \ {Null}

\* the customers with two rows that differ in their order number
RepeatCustomers(rows) ==
    {c \in CustomersOf(rows) :
        \E i, j \in 1..Len(rows) :
            /\ rows[i][CustomerField] = c
            /\ rows[j][CustomerField] = c
            /\ ~IsNull(rows[i].order_number)
            /\ ~IsNull(rows[j].order_number)
            /\ rows[i].order_number # rows[j].order_number}

\* C16: the repeat-customer percentage is the number of distinct customers
\* with at least two distinct order numbers divided by the number of distinct
\* customers, rows without a customer not counted; it is 0.0 when there is no
\* customer, and so it lies within [0, 1].
C16_RepeatPctIsRepeatersOverCustomers ==
    KpiPage =>
        LET custs == CustomersOf(KpiRows)
            reps  == RepeatCustomers(KpiRows)
        IN  /\ (custs = {}) => view.kpi.repeat_pct = Dec(0, 0)
            /\ (custs # {}) =>
                /\ view.kpi.repeat_pct = Ratio(Cardinality(reps), Cardinality(custs))
                /\ view.kpi.repeat_pct.n \in 0..view.kpi.repeat_pct.d

\* a page shows the KPIs of rows where a customer ordered twice
C16_Witness ==
    /\ KpiPage
    /\ RepeatCustomers(KpiRows) # {}
    /\ view.kpi.repeat_pct.t = "ratio"
    /\ view.kpi.repeat_pct.n >= 1

\* C18: whatever rows the scoped table holds (none included), the time-bucket
\* aggregate of a page has exactly four rows, in the order Morning, Afternoon,
\* Evening, Other; a bucket without a non-cancelled order has value 0 and the
\* four values sum to the number of non-cancelled rows.
C18_PeakWindowHasFourBuckets ==
    (KpiPage /\ app = "multi") =>
        /\ ~IsRaised(view.peak)
        /\ Len(view.peak) = 4
        /\ \A i \in 1..4 :
            /\ view.peak[i].time_bucket = PeakBuckets[i]
            /\ view.peak[i].value.v >= 0
        /\ view.peak[1].value.v + view.peak[2].value.v + view.peak[3].value.v
               + view.peak[4].value.v = Len(NonCancelled(view.scoped))

\* the place of a group in the aggregate before it is sorted
PlaceBeforeSort(g) == CHOOSE i \in 1..Len(ret.agg) : ret.agg[i] = g

\* C17: the top-N aggregate returns at most N groups, in descending order of
\* the requested metric; no group left out has a metric greater than one that
\* is returned; groups with equal metrics keep the order they had before the
\* sort (stable sort).
C17_TopNSortedStable ==
    (Called /\ fn \in {"top_n", "charts.bar_top"}) =>
        LET q == ret.rows
        IN  /\ Len(q) <= arg.n
            /\ \A i, j \in 1..Len(q) : i < j => ~MetricGt(arg.by, q[j], q[i])
            /\ \A k \in 1..Len(ret.agg) :
                   (\A i \in 1..Len(q) : q[i] # ret.agg[k]) =>
                       \A i \in 1..Len(q) : ~MetricGt(arg.by, ret.agg[k], q[i])
            /\ \A i, j \in 1..Len(q) :
                   (i < j /\ q[i][arg.by] = q[j][arg.by]) =>
                       PlaceBeforeSort(q[i]) < PlaceBeforeSort(q[j])

\* C19: after transform the quantity of every row is a non-negative integer,
\* and a raw quantity that is missing or does not parse gives 0.
C19_QuantityNonNegativeInteger ==
    (Returned /\ fn \in TransformFns) =>
        \A j \in 1..Len(ret.rows) :
            LET raw == Cell(arg, arg.rows[j], "purchase_item_quantity")
            IN  /\ QtyOf(ret.rows[j]) \in Nat
                /\ (IsNull(raw) \/ raw = Str(<<"x">>)) => QtyOf(ret.rows[j]) = 0

\* the digits of a cell, in order; none for an empty cell
CellDigits(x) == IF IsNull(x) THEN <<>> ELSE SelectSeq(x.s, LAMBDA c : c \in Digits)

\* the digits of the country code followed by those of the phone number,
\* leading zeros stripped
IdentityDigits(r) == LStripZeros(CellDigits(r.country_code) \o CellDigits(r.phone_number))

\* the field of the normalized rows that holds the customer identity
IdentityOf(r) == IF fn = "transform" THEN r.phone ELSE r.customer

\* C20: the customer identity of a row is the digits of its country code
\* followed by the digits of its phone number, leading zeros stripped; when
\* that digit string is empty the identity is the email of the row, and it is
\* undefined when the email is absent too.
C20_CustomerIdentityIsPhoneElseEmail ==
    (Returned /\ fn \in TransformFns /\ arg.cols = AllRawCols) =>
        \A j \in 1..Len(ret.rows) :
            LET d == IdentityDigits(arg.rows[j])
            IN  /\ (d # <<>>) => IdentityOf(ret.rows[j]) = Str(d)
                /\ (d = <<>>) => IdentityOf(ret.rows[j]) = arg.rows[j].email


-----------------------------------------------------------------------------
(* Impact fields and the pickup flag, under SpecPure *)

\* the raw service mode of a cell, trimmed and lower-cased, is "pickup"
RawIsPickup(x) == ~IsNull(x) /\ CatLower(CatStrip(x)) = Lit("pickup", "lower")

\* C21: for every row, is_pickup is 1 if and only if the raw service mode,
\* trimmed and compared without regard to case, is "pickup", and 0 otherwise
\* (a missing service mode included).
C21_IsPickupIffTrimmedModeIsPickup ==
    (Returned /\ fn \in TransformFns /\ ret.t = "df") =>
        \A j \in 1..Len(ret.rows) :
            ret.rows[j].is_pickup
                = IF RawIsPickup(Cell(arg, arg.rows[j], "service_mode")) THEN 1 ELSE 0

\* the impact fields of an upload were derived
ImpactDerived == Returned /\ fn \in TransformFns /\ ret.t = "df" /\ arg \in ImpactInputs

\* the last-mile component the parameters give a row of service mode sm
ComponentOf(p, sm) ==
    IF p.enable_pickup_co2e_component /\ sm = PickupLit
          /\ DecGt(p.last_mile_co2e_delivery_kg, p.last_mile_co2e_pickup_kg)
    THEN DecSub(p.last_mile_co2e_delivery_kg, p.last_mile_co2e_pickup_kg)
    ELSE Dec(0, 0)

\* the row's total CO2e: co2e_avoided in streamlit_app, co2e_total in utils.data
TotalCo2e(r) == IF fn = "transform" THEN r.co2e_avoided ELSE r.co2e_total

\* C22: for every row the last-mile CO2e component is max(last_mile_co2e_delivery_kg
\* - last_mile_co2e_pickup_kg, 0) when enable_pickup_co2e_component is true and
\* the row's service mode is Pickup, 0 in every other case, never negative, and
\* the row's total CO2e is food_kg * co2e_per_kg_food_rescued plus the component.
C22_LastMileComponentAndTotal ==
    ImpactDerived =>
        \A j \in 1..Len(ret.rows) :
            LET r    == ret.rows[j]
                comp == ComponentOf(impact_params, r.service_mode)
            IN  /\ ~DecGt(Dec(0, 0), comp)
                /\ fn = "data.transform" => r.pickup_co2e_saved = comp
                /\ TotalCo2e(r)
                       = DecAdd(DecMul(r.order_food_kg,
                                       impact_params.co2e_per_kg_food_rescued), comp)

\* a Pickup row derived with the component enabled and the delivery leg below
\* the pickup leg
C22_Witness ==
    /\ ImpactDerived
    /\ impact_params.enable_pickup_co2e_component
    /\ DecGt(impact_params.last_mile_co2e_pickup_kg, impact_params.last_mile_co2e_delivery_kg)
    /\ ret.rows[1].service_mode = PickupLit
    /\ TotalCo2e(ret.rows[1]) = Dec(1, 0)


\* a cell of the weight column as a number ("2" is 2; 1.5 is 1.5)
WeightOf(x) == IF x.t = "str" THEN Dec(DigitsValue(x.s), 0) ELSE x

\* C23: for every row, food_kg is the row's explicit per-order weight when the
\* upload has a per-order weight column and the row's value is not null, and
\* avg_order_weight_kg otherwise; meals is food_kg / kg_per_meal.
C23_FoodKgIsExplicitWeightElseAverage ==
    ImpactDerived =>
        \A j \in 1..Len(ret.rows) :
            LET w  == Cell(arg, arg.rows[j], "order_weight_kg")
                kg == ret.rows[j].order_food_kg
                ml == ret.rows[j].meals
            IN  /\ (~IsNull(w) /\ w # Str(<<"x">>)) => kg = WeightOf(w)
                /\ IsNull(w) => kg = impact_params.avg_order_weight_kg
                /\ DecMul(Dec(ml.n, 0), impact_params.kg_per_meal)
                       = DecMul(Dec(ml.d, 0), kg)


-----------------------------------------------------------------------------
(* Session state: the parameter configuration, the stored tables, the     *)
(* drill table, under Spec                                                 *)

C26_ParameterEditChangesOnlyParameters ==
    [][impact_params' # impact_params => (data_df' = data_df /\ raw_df' = raw_df)]_vars

\* the chart categories a drill-table row has to match
MatchesClicks(r, clicks) ==
    /\ clicks.peak # {} => r.time_bucket \in clicks.peak
    /\ clicks.donut # {} => r.service_mode \in clicks.donut
    /\ clicks.brand # {} => r.brand \in clicks.brand
    /\ clicks.outlet # {} => r.store_name \in clicks.outlet

\* C27: the drill table of a page holds exactly the rows of the page's scoped
\* table whose values equal every clicked chart category, all the scoped rows
\* when nothing is clicked; Cancelled rows are not removed from it.
C27_DrillTableIsScopedRowsMatchingClicks ==
    (KpiPage /\ app = "multi") =>
        view.drill = SelectSeq(view.scoped, LAMBDA r : MatchesClicks(r, view.clicks))

\* C28: in the single-file app, whenever the raw table and the normalized
\* table are both present in session state, the normalized table is the
\* transform of the raw table (under a parameter configuration of the
\* Settings page).
C28_StoredTablesBelongTogether ==
    (app = "single" /\ ~IsNull(raw_df) /\ ~IsNull(data_df)) =>
        \E params \in SessionParams : data_df = transform_of[raw_df, params]


-----------------------------------------------------------------------------
(* Determinism, under SpecPure *)

=============================================================================
